---- MODULE Spec2Model ----
(***************************************************************************)
(* Breakout-strategy backtest of controllers/strategyController.js.        *)
(*                                                                         *)
(* One backtest request (runStrategy) is modelled as a state machine whose *)
(* steps are the segments between its await points, with the synchronous   *)
(* candle loop of processTradingDay unrolled one iteration per step.       *)
(* The daily-summary collection is part of the state; the candles a       *)
(* request reads are an input of the step that queries them, and a query   *)
(* may be rejected by the store.                                           *)
(*                                                                         *)
(* A second specification, SeedSpec, models scripts/seedDailySummaries.js: *)
(* candles are stored, and a run of the script aggregates the stored       *)
(* candles into daily summaries and inserts them.                          *)
(*                                                                         *)
(* MetricsSpec evaluates calculatePerformanceMetrics on bounded ledgers,   *)
(* PairSpec serves two requests side by side over the candle store,        *)
(* CompareSpec simulates one day with two capitals and with the            *)
(* command-line script scripts/breakoutStrategy.js, and FetchSpec models   *)
(* fetchHistoricalDataWithChunking of the historical controller.           *)
(*                                                                         *)
(* Numbers.  Every amount (price, target, stop-loss, pnl, capital) is an   *)
(* integer count of 1/Scale of a cent; percentages are held in            *)
(* thousandths of a percent.  The prices and percentages the inputs are    *)
(* drawn from make entryPrice * (1 +- percent / 100) a whole number of     *)
(* such units, so the                                                      *)
(* arithmetic is exact decimal arithmetic.  toFixed(2) rounds an amount to *)
(* whole cents.                                                            *)
(***************************************************************************)
EXTENDS Integers, Sequences, FiniteSets

\* ------------------------------------------------------------ bounds
MaxDays == 2
MaxCandles == 2

\* ------------------------------------------------------------ units
\* Amounts carry two more decimal places than the two toFixed(2) keeps.
Scale == 10 * 10
Cents(c) == c * Scale
\* Percentages are held in thousandths of a percent; Tenths(p) is p tenths
\* of a percent.
PercentUnits == 10 * 10 * 10
Tenths(p) == p * 100
\* targetPercent / 100.
PercentDivisor == 100
\* amount * (pct / 100), rounded down; the product is taken in two parts to
\* stay within 32 bits.
PctOf(amount, pct) ==
  LET whole == PercentUnits * PercentDivisor
  IN  (amount \div whole) * pct + ((amount % whole) * pct) \div whole

Null == << >>
Some(x) == << x >>

Days == 1 .. MaxDays
TicksPerDay == MaxCandles + 1
Ts(d, m) == d * TicksPerDay + m
DayOf(ts) == ts \div TicksPerDay
Midnight(d) == d * TicksPerDay

Abs(x) == IF x < 0 THEN -x ELSE x

\* n / d rounded to the nearest integer, a tie going away from zero (d > 0).
RoundDiv(n, d) ==
  LET q == (2 * Abs(n) + d) \div (2 * d)
  IN  IF n < 0 THEN -q ELSE q

\* parseFloat(x.toFixed(2)) of an amount: the nearest whole number of cents.
toFixed2(x) == RoundDiv(x, Scale) * Scale

\* ------------------------------------------------------------ inputs
\* The daily summaries of the store: the summary dated d carries one of two
\* pairs of levels (dailyHigh, dailyLow), by the parity of d.
StoredSummary(d) ==
  IF d % 2 = 0
  THEN [dailyHigh |-> Cents(10000), dailyLow |-> Cents(9000), date |-> d]
  ELSE [dailyHigh |-> Cents(10025), dailyLow |-> Cents(10000), date |-> d]

\* The security the requests name, and another one the store also holds.
RequestedSecurity == "S1"
OtherSecurity == "S2"

\* The other security trades above the minimum capital of a request.
OtherSummary(d) ==
  [dailyHigh |-> Cents(120000), dailyLow |-> Cents(119000), date |-> d]

\* A document of the DailySummary collection: the summary of (sec, d).
SummaryDoc(sec, d) ==
  LET levels == IF sec = RequestedSecurity THEN StoredSummary(d) ELSE OtherSummary(d)
  IN  [stockName |-> "STOCK", securityId |-> sec, date |-> d,
       dailyHigh |-> levels.dailyHigh, dailyLow |-> levels.dailyLow,
       open |-> levels.dailyLow, close |-> levels.dailyHigh, totalVolume |-> 0]

\* Days of the requested security that have a summary: none, every day
\* before the last trading day, only the first of them, only the last.
SummaryDateSets == { { }, 0 .. MaxDays - 1, { 0 }, { MaxDays - 1 } }

\* Contents of the DailySummary collection: one document per (securityId,
\* date) (the unique index), for some days of the requested security and
\* for every day of the other one.
SummaryStores ==
  { { SummaryDoc(RequestedSecurity, d) : d \in dates } \cup
    { SummaryDoc(OtherSecurity, d) : d \in 0 .. MaxDays } :
      dates \in SummaryDateSets }

\* Minute bars (open, high, low, close), low <= open, close <= high.
CandleShapes ==
  { [open |-> Cents(10000), high |-> Cents(10030), low |-> Cents(9970),  close |-> Cents(9980)],
    [open |-> Cents(10010), high |-> Cents(10025), low |-> Cents(9990),  close |-> Cents(10015)],
    [open |-> Cents(9990),  high |-> Cents(10000), low |-> Cents(9970),  close |-> Cents(9975)],
    [open |-> Cents(9998),  high |-> Cents(10010), low |-> Cents(9996),  close |-> Cents(10008)],
    [open |-> Cents(10005), high |-> Cents(10020), low |-> Cents(10000), close |-> Cents(10010)] }

\* Defaults and limits of the request validation: 0.2 percent and 10 percent
\* the capital 100000.00 and 1000.00.
DefaultPercent == Tenths(2)
MaxPercent == Tenths(100)
DefaultCapital == Cents(10000000)

\* Mutant: a capital of exactly 1000 is refused.
MinCapitalExclusive == Cents(100000) + 1

MinCapital == Cents(100000)

\* What parseFloat(field) and new Date(field).getTime() give: a number or NaN.
Num(n) == [isNaN |-> FALSE, value |-> n]
NaN == [isNaN |-> TRUE, value |-> 0]

\* Minute bars of the other security.
OtherCandleShapes ==
  { [open |-> Cents(119900), high |-> Cents(120100), low |-> Cents(119800), close |-> Cents(120050)],
    [open |-> Cents(119500), high |-> Cents(119900), low |-> Cents(118700), close |-> Cents(118900)] }

CandleShapesOf(sec) == IF sec = RequestedSecurity THEN CandleShapes ELSE OtherCandleShapes

MkCandle(shape, ts) ==
  [timestamp |-> ts, open |-> shape.open, high |-> shape.high,
   low |-> shape.low, close |-> shape.close]

\* Sequences of at most n elements of S.
RECURSIVE SeqsUpTo(_, _)
SeqsUpTo(S, n) ==
  IF n = 0 THEN { << >> }
  ELSE LET shorter == SeqsUpTo(S, n - 1)
       IN  shorter \cup { Append(s, x) : s \in { t \in shorter : Len(t) = n - 1 }, x \in S }

\* What Candle.find(...).sort({timestamp: 1}) can return for one day: the
\* day's bars in ascending timestamp order (timestamps are unique per
\* security and interval).
DayCandleLists(sec, d) ==
  { [j \in 1 .. Len(shapes) |-> MkCandle(shapes[j], Ts(d, j))] :
      shapes \in SeqsUpTo(CandleShapesOf(sec), MaxCandles) }

\* Request bodies.  An omitted field is Null; a field that is present holds
\* what the handler parses it to (parseFloat for the percentages and the
\* capital, new Date for the dates, as a day number).
DefaultRequest ==
  [stockName |-> Some("STOCK"), securityId |-> Some(RequestedSecurity),
   startDate |-> Some(Num(1)), endDate |-> Some(Num(MaxDays + 1)),
   targetPercent |-> Null, stopLossPercent |-> Null,
   capital |-> Some(Num(Cents(100000)))]

LastDayRequest == [DefaultRequest EXCEPT !.startDate = Some(Num(MaxDays))]

\* The first day, with percentages of three decimals: 0.125 and 0.035.
FirstDayRequest ==
  [DefaultRequest EXCEPT !.endDate = Some(Num(2)),
                         !.targetPercent = Some(Num(125)),
                         !.stopLossPercent = Some(Num(35))]

\* Requests the validation lets through: the whole range with the default
\* percentages and the least capital; the last day with given percentages
\* and the default capital, with the greatest percentages, and for the other
\* security; the first day with percentages of three decimals.
ValidRequests ==
  { DefaultRequest, FirstDayRequest,
    [LastDayRequest EXCEPT !.targetPercent = Some(Num(Tenths(4))),
                           !.stopLossPercent = Some(Num(Tenths(2))), !.capital = Null],
    [LastDayRequest EXCEPT !.targetPercent = Some(Num(MaxPercent)),
                           !.stopLossPercent = Some(Num(MaxPercent))],
    [LastDayRequest EXCEPT !.securityId = Some(OtherSecurity)] }

\* Requests the validation refuses.
InvalidRequests ==
  { [DefaultRequest EXCEPT !.stockName = Null],
    [DefaultRequest EXCEPT !.securityId = Null],
    [DefaultRequest EXCEPT !.startDate = Null],
    [DefaultRequest EXCEPT !.endDate = Null],
    [DefaultRequest EXCEPT !.targetPercent = Some(Num(0))],
    [DefaultRequest EXCEPT !.targetPercent = Some(Num(MaxPercent + 2))],
    [DefaultRequest EXCEPT !.targetPercent = Some(NaN)],
    [DefaultRequest EXCEPT !.stopLossPercent = Some(Num(0))],
    [DefaultRequest EXCEPT !.stopLossPercent = Some(Num(MaxPercent + 2))],
    [DefaultRequest EXCEPT !.stopLossPercent = Some(NaN)],
    [DefaultRequest EXCEPT !.capital = Some(Num(Cents(99999)))],
    [DefaultRequest EXCEPT !.capital = Some(NaN)],
    [DefaultRequest EXCEPT !.endDate = Some(NaN)],
    [DefaultRequest EXCEPT !.startDate = Some(Num(MaxDays + 1))],
    [DefaultRequest EXCEPT !.startDate = Some(Num(MaxDays + 1)), !.endDate = Some(Num(1))] }

Requests == ValidRequests \cup InvalidRequests

VARIABLES dailySummaries, pc, req, targetPercentValue, stopLossPercentValue, capitalValue,
          tradingDays, i,
          previousDayLevels, candles, ci, activeTrade, tradeExecuted, trades,
          updatedCapital, allTrades, skippedDays, currentCapital, response,
          error, lastCapitalOut, simulatedDays

\* The Candle collection and the run of scripts/seedDailySummaries.js.
VARIABLES candleStore, bulkErrorName, seedPc, seedCandles, seedSummaries, seedExit

\* A caller of calculatePerformanceMetrics: the ledger it holds, and the
\* results of its latest and of its previous call.
VARIABLES ledger, metrics, previousMetrics

\* Backtest requests served side by side: the locals of each runStrategy call.
VARIABLES runs

\* One day simulated with two capitals and by the command-line script: the
\* arguments and the three results.
VARIABLES dayCase, dayOutcome

\* A call of fetchHistoricalDataWithChunking: its arguments, its position,
\* its locals currentStart and allCandles, the requests it has sent to the
\* provider, and what it returned.
VARIABLES fetchArgs, fetchPc, currentStart, allCandles, chunks, uniqueCandles

vars == << dailySummaries, pc, req, targetPercentValue, stopLossPercentValue, capitalValue,
           tradingDays, i,
           previousDayLevels, candles, ci, activeTrade, tradeExecuted, trades,
           updatedCapital, allTrades, skippedDays, currentCapital, response,
           error, lastCapitalOut, simulatedDays,
           candleStore, bulkErrorName, seedPc, seedCandles, seedSummaries, seedExit,
           ledger, metrics, previousMetrics, runs, dayCase, dayOutcome,
           fetchArgs, fetchPc, currentStart, allCandles, chunks, uniqueCandles >>

runVars == << tradingDays, i, allTrades, skippedDays, currentCapital >>
dayVars == << candles, ci, activeTrade, tradeExecuted, trades, updatedCapital >>
ghostVars == << lastCapitalOut, simulatedDays >>
seedVars == << candleStore, bulkErrorName, seedPc, seedCandles, seedSummaries, seedExit >>
storeVars == << dailySummaries, seedVars >>
metricsVars == << ledger, metrics, previousMetrics >>
compareVars == << dayCase, dayOutcome >>
fetchVars == << fetchArgs, fetchPc, currentStart, allCandles, chunks, uniqueCandles >>
sideVars == << metricsVars, runs, compareVars, fetchVars >>
paramVars == << storeVars, sideVars, req, targetPercentValue, stopLossPercentValue, capitalValue >>
strategyVars == << pc, req, targetPercentValue, stopLossPercentValue, capitalValue,
                   tradingDays, i, previousDayLevels, candles, ci, activeTrade,
                   tradeExecuted, trades, updatedCapital, allTrades, skippedDays,
                   currentCapital, response, error, lastCapitalOut, simulatedDays >>

\* ------------------------------------------------------------ day simulator
NoExit == [exited |-> FALSE, exitPrice |-> 0, reason |-> "NONE"]

\* Mutant: the stop-loss is tested before the target.
checkExitConditionStopFirst(candle, entryPrice, isBuy, target, stopLoss) ==
  IF isBuy
  THEN IF candle.low <= stopLoss
       THEN [exited |-> TRUE, exitPrice |-> stopLoss, reason |-> "STOP_LOSS"]
       ELSE IF candle.high >= target
            THEN [exited |-> TRUE, exitPrice |-> target, reason |-> "TARGET"]
            ELSE NoExit
  ELSE IF candle.high >= stopLoss
       THEN [exited |-> TRUE, exitPrice |-> stopLoss, reason |-> "STOP_LOSS"]
       ELSE IF candle.low <= target
            THEN [exited |-> TRUE, exitPrice |-> target, reason |-> "TARGET"]
            ELSE NoExit

\* Mutant: the stop-loss is not looked at.
checkExitConditionTargetOnly(candle, entryPrice, isBuy, target, stopLoss) ==
  IF isBuy
  THEN IF candle.high >= target
       THEN [exited |-> TRUE, exitPrice |-> target, reason |-> "TARGET"]
       ELSE NoExit
  ELSE IF candle.low <= target
       THEN [exited |-> TRUE, exitPrice |-> target, reason |-> "TARGET"]
       ELSE NoExit

checkExitCondition(candle, entryPrice, isBuy, target, stopLoss) ==
  IF isBuy
  THEN IF candle.high >= target
       THEN [exited |-> TRUE, exitPrice |-> target, reason |-> "TARGET"]
       ELSE IF candle.low <= stopLoss
            THEN [exited |-> TRUE, exitPrice |-> stopLoss, reason |-> "STOP_LOSS"]
            ELSE NoExit
  ELSE IF candle.low <= target
       THEN [exited |-> TRUE, exitPrice |-> target, reason |-> "TARGET"]
       ELSE IF candle.high >= stopLoss
            THEN [exited |-> TRUE, exitPrice |-> stopLoss, reason |-> "STOP_LOSS"]
            ELSE NoExit

\* Mutant: the SELL breakout is tested before the BUY breakout.
openTradeSellFirst(candle, idx, levels, targetPercent, stopLossPercent, capital) ==
  IF candle.low < levels.dailyLow
  THEN LET entryPrice == levels.dailyLow
       IN  Some([type |-> "SELL", entryPrice |-> entryPrice,
                 entryTime |-> candle.timestamp, entryCandleIndex |-> idx,
                 target |-> entryPrice - PctOf(entryPrice, targetPercent),
                 stopLoss |-> entryPrice + PctOf(entryPrice, stopLossPercent),
                 isBuy |-> FALSE, quantity |-> capital \div entryPrice])
  ELSE IF candle.high > levels.dailyHigh
  THEN LET entryPrice == levels.dailyHigh
       IN  Some([type |-> "BUY", entryPrice |-> entryPrice,
                 entryTime |-> candle.timestamp, entryCandleIndex |-> idx,
                 target |-> entryPrice + PctOf(entryPrice, targetPercent),
                 stopLoss |-> entryPrice - PctOf(entryPrice, stopLossPercent),
                 isBuy |-> TRUE, quantity |-> capital \div entryPrice])
  ELSE Null

\* Mutant: a candle that only touches a level opens a trade.
openTradeOnTouch(candle, idx, levels, targetPercent, stopLossPercent, capital) ==
  IF candle.high >= levels.dailyHigh
  THEN LET entryPrice == levels.dailyHigh
       IN  Some([type |-> "BUY", entryPrice |-> entryPrice,
                 entryTime |-> candle.timestamp, entryCandleIndex |-> idx,
                 target |-> entryPrice + PctOf(entryPrice, targetPercent),
                 stopLoss |-> entryPrice - PctOf(entryPrice, stopLossPercent),
                 isBuy |-> TRUE, quantity |-> capital \div entryPrice])
  ELSE IF candle.low <= levels.dailyLow
  THEN LET entryPrice == levels.dailyLow
       IN  Some([type |-> "SELL", entryPrice |-> entryPrice,
                 entryTime |-> candle.timestamp, entryCandleIndex |-> idx,
                 target |-> entryPrice - PctOf(entryPrice, targetPercent),
                 stopLoss |-> entryPrice + PctOf(entryPrice, stopLossPercent),
                 isBuy |-> FALSE, quantity |-> capital \div entryPrice])
  ELSE Null

\* Mutant: a breakout the capital cannot buy one unit of opens no trade.
openTradeSkipZero(candle, idx, levels, targetPercent, stopLossPercent, capital) ==
  IF candle.high > levels.dailyHigh /\ capital >= levels.dailyHigh
  THEN LET entryPrice == levels.dailyHigh
       IN  Some([type |-> "BUY", entryPrice |-> entryPrice,
                 entryTime |-> candle.timestamp, entryCandleIndex |-> idx,
                 target |-> entryPrice + PctOf(entryPrice, targetPercent),
                 stopLoss |-> entryPrice - PctOf(entryPrice, stopLossPercent),
                 isBuy |-> TRUE, quantity |-> capital \div entryPrice])
  ELSE IF candle.low < levels.dailyLow /\ capital >= levels.dailyLow
  THEN LET entryPrice == levels.dailyLow
       IN  Some([type |-> "SELL", entryPrice |-> entryPrice,
                 entryTime |-> candle.timestamp, entryCandleIndex |-> idx,
                 target |-> entryPrice - PctOf(entryPrice, targetPercent),
                 stopLoss |-> entryPrice + PctOf(entryPrice, stopLossPercent),
                 isBuy |-> FALSE, quantity |-> capital \div entryPrice])
  ELSE Null

\* The entry test of one loop iteration: the trade opened on `candle`, or
\* Null when the candle breaks neither level.
openTrade(candle, idx, levels, targetPercent, stopLossPercent, capital) ==
  IF candle.high > levels.dailyHigh
  THEN LET entryPrice == levels.dailyHigh
       IN  Some([type |-> "BUY", entryPrice |-> entryPrice,
                 entryTime |-> candle.timestamp, entryCandleIndex |-> idx,
                 target |-> entryPrice + PctOf(entryPrice, targetPercent),
                 stopLoss |-> entryPrice - PctOf(entryPrice, stopLossPercent),
                 isBuy |-> TRUE, quantity |-> capital \div entryPrice])
  ELSE IF candle.low < levels.dailyLow
  THEN LET entryPrice == levels.dailyLow
       IN  Some([type |-> "SELL", entryPrice |-> entryPrice,
                 entryTime |-> candle.timestamp, entryCandleIndex |-> idx,
                 target |-> entryPrice - PctOf(entryPrice, targetPercent),
                 stopLoss |-> entryPrice + PctOf(entryPrice, stopLossPercent),
                 isBuy |-> FALSE, quantity |-> capital \div entryPrice])
  ELSE Null

\* Mutant: the capital is moved by the pnl as rounded for the ledger.
tradePnlRounded(t, exitPrice) ==
  IF t.isBuy THEN toFixed2((exitPrice - t.entryPrice) * t.quantity)
  ELSE toFixed2((t.entryPrice - exitPrice) * t.quantity)

\* P&L of closing trade t at exitPrice, before rounding.
tradePnl(t, exitPrice) ==
  IF t.isBuy THEN (exitPrice - t.entryPrice) * t.quantity
  ELSE (t.entryPrice - exitPrice) * t.quantity

\* Mutant: the price return is taken as for a BUY trade.
tradePnlPercentOfBuy(t, exitPrice) ==
  RoundDiv((exitPrice - t.entryPrice) * 100 * 100, t.entryPrice)

\* Price return in hundredths of a percent, as toFixed(2) leaves it.
tradePnlPercent(t, exitPrice) ==
  IF t.isBuy THEN RoundDiv((exitPrice - t.entryPrice) * 100 * 100, t.entryPrice)
  ELSE RoundDiv((t.entryPrice - exitPrice) * 100 * 100, t.entryPrice)

\* The ledger record pushed when trade t is closed on candle `last`.
closedTrade(t, last, exitPrice, reason) ==
  [date |-> last.timestamp, type |-> t.type, entryPrice |-> t.entryPrice,
   entryTime |-> t.entryTime, exitPrice |-> exitPrice,
   exitTime |-> last.timestamp, exitReason |-> reason,
   quantity |-> t.quantity, pnl |-> toFixed2(tradePnl(t, exitPrice)),
   pnlPercent |-> tradePnlPercent(t, exitPrice)]

\* ------------------------------------------------------------ performance metrics
\* Metrics of the empty ledger (lines 258-270).
emptyMetrics ==
  [totalTrades |-> 0, winningTrades |-> 0, losingTrades |-> 0, winRate |-> 0,
   totalPnl |-> 0, averagePnl |-> 0, bestTrade |-> Null, worstTrade |-> Null,
   maxDrawdown |-> 0]

\* allTrades.filter(t => t.pnl > 0) and allTrades.filter(t => t.pnl < 0).
winningTradesOf(ledgerTrades) == SelectSeq(ledgerTrades, LAMBDA t : t.pnl > 0)
losingTradesOf(ledgerTrades) == SelectSeq(ledgerTrades, LAMBDA t : t.pnl < 0)

\* Mutant: only the gains are added up.
RECURSIVE sumPnlOfGains(_)
sumPnlOfGains(ledgerTrades) ==
  IF ledgerTrades = << >> THEN 0
  ELSE sumPnlOfGains(SubSeq(ledgerTrades, 1, Len(ledgerTrades) - 1))
         + (IF ledgerTrades[Len(ledgerTrades)].pnl > 0
            THEN ledgerTrades[Len(ledgerTrades)].pnl ELSE 0)

\* allTrades.reduce((sum, t) => sum + t.pnl, 0).
RECURSIVE sumPnl(_)
sumPnl(ledgerTrades) ==
  IF ledgerTrades = << >> THEN 0
  ELSE sumPnl(SubSeq(ledgerTrades, 1, Len(ledgerTrades) - 1)) + ledgerTrades[Len(ledgerTrades)].pnl

\* Mutant: winRate is left unrounded where it is a whole number of
\* hundredths of a percent, and cut off below otherwise.
winRateTruncated(winning, total) == (winning * 100 * 100) \div total

\* (winning / total) * 100 as toFixed(2) leaves it, in hundredths of a
\* percent.
winRateOf(winning, total) == RoundDiv(winning * 100 * 100, total)

\* Mutant: of trades with the same pnl the later one is kept.
RECURSIVE reduceBestLast(_, _, _)
reduceBestLast(ledgerTrades, k, best) ==
  IF k > Len(ledgerTrades) THEN best
  ELSE reduceBestLast(ledgerTrades, k + 1,
                      IF ledgerTrades[k].pnl >= best.pnl THEN ledgerTrades[k] ELSE best)

\* The reduce of lines 279-281 from element k on, with accumulator best.
RECURSIVE reduceBest(_, _, _)
reduceBest(ledgerTrades, k, best) ==
  IF k > Len(ledgerTrades) THEN best
  ELSE reduceBest(ledgerTrades, k + 1,
                  IF ledgerTrades[k].pnl > best.pnl THEN ledgerTrades[k] ELSE best)

\* The reduce of lines 282-284.
RECURSIVE reduceWorst(_, _, _)
reduceWorst(ledgerTrades, k, worst) ==
  IF k > Len(ledgerTrades) THEN worst
  ELSE reduceWorst(ledgerTrades, k + 1,
                   IF ledgerTrades[k].pnl < worst.pnl THEN ledgerTrades[k] ELSE worst)

\* Mutant: the peak is the largest running sum of the trades walked, without
\* the 0 the walk starts from.
RECURSIVE drawdownWalkFromFirst(_, _, _, _, _)
drawdownWalkFromFirst(ledgerTrades, k, runningPnl, peak, maxDrawdown) ==
  IF k > Len(ledgerTrades) THEN maxDrawdown
  ELSE LET running == runningPnl + ledgerTrades[k].pnl
           newPeak == IF k = 1 \/ running > peak THEN running ELSE peak
           drawdown == newPeak - running
       IN  drawdownWalkFromFirst(ledgerTrades, k + 1, running, newPeak,
                                 IF drawdown > maxDrawdown THEN drawdown ELSE maxDrawdown)

\* Mutant: the drawdown is the distance of the running sum from the peak on
\* either side, the peak being updated after it is taken.
RECURSIVE drawdownWalkEitherSide(_, _, _, _, _)
drawdownWalkEitherSide(ledgerTrades, k, runningPnl, peak, maxDrawdown) ==
  IF k > Len(ledgerTrades) THEN maxDrawdown
  ELSE LET running == runningPnl + ledgerTrades[k].pnl
           newPeak == IF running > peak THEN running ELSE peak
           drawdown == Abs(peak - running)
       IN  drawdownWalkEitherSide(ledgerTrades, k + 1, running, newPeak,
                                  IF drawdown > maxDrawdown THEN drawdown ELSE maxDrawdown)

\* The forEach of lines 290-299 from trade k on; runningPnl, peak and
\* maxDrawdown are its three locals, all 0 at the start (lines 286-288).
RECURSIVE drawdownWalk(_, _, _, _, _)
drawdownWalk(ledgerTrades, k, runningPnl, peak, maxDrawdown) ==
  IF k > Len(ledgerTrades) THEN maxDrawdown
  ELSE LET running == runningPnl + ledgerTrades[k].pnl
           newPeak == IF running > peak THEN running ELSE peak
           drawdown == newPeak - running
       IN  drawdownWalk(ledgerTrades, k + 1, running, newPeak,
                        IF drawdown > maxDrawdown THEN drawdown ELSE maxDrawdown)

\* Mutant: the walk goes on from the running sum of the call before.
calculatePerformanceMetricsCarried(ledgerTrades) ==
  IF Len(ledgerTrades) = 0 THEN emptyMetrics
  ELSE LET carried == IF metrics = Null THEN 0 ELSE metrics[1].totalPnl
           totalPnl == carried + sumPnl(ledgerTrades)
       IN  [totalTrades |-> Len(ledgerTrades),
            winningTrades |-> Len(winningTradesOf(ledgerTrades)),
            losingTrades |-> Len(losingTradesOf(ledgerTrades)),
            winRate |-> winRateOf(Len(winningTradesOf(ledgerTrades)), Len(ledgerTrades)),
            totalPnl |-> toFixed2(totalPnl),
            averagePnl |-> RoundDiv(totalPnl, Len(ledgerTrades) * Scale) * Scale,
            bestTrade |-> Some(reduceBest(ledgerTrades, 2, ledgerTrades[1])),
            worstTrade |-> Some(reduceWorst(ledgerTrades, 2, ledgerTrades[1])),
            maxDrawdown |-> toFixed2(drawdownWalk(ledgerTrades, 1, carried, 0, 0))]

\* calculatePerformanceMetrics (lines 257-312).  Amounts are rounded to whole
\* cents, averagePnl from the unrounded quotient.
calculatePerformanceMetrics(ledgerTrades) ==
  IF Len(ledgerTrades) = 0 THEN emptyMetrics
  ELSE LET totalPnl == sumPnl(ledgerTrades)
       IN  [totalTrades |-> Len(ledgerTrades),
            winningTrades |-> Len(winningTradesOf(ledgerTrades)),
            losingTrades |-> Len(losingTradesOf(ledgerTrades)),
            winRate |-> winRateOf(Len(winningTradesOf(ledgerTrades)), Len(ledgerTrades)),
            totalPnl |-> toFixed2(totalPnl),
            averagePnl |-> RoundDiv(totalPnl, Len(ledgerTrades) * Scale) * Scale,
            bestTrade |-> Some(reduceBest(ledgerTrades, 2, ledgerTrades[1])),
            worstTrade |-> Some(reduceWorst(ledgerTrades, 2, ledgerTrades[1])),
            maxDrawdown |-> toFixed2(drawdownWalk(ledgerTrades, 1, 0, 0, 0))]

\* ------------------------------------------------------------ store queries
\* Candle timestamps the store may hold for the modelled days.
StoreTimestamps == { Ts(d, m) : d \in Days, m \in 1 .. MaxCandles }

IsInjective(s) == \A a, b \in 1 .. Len(s) : s[a] = s[b] => a = b

\* What Candle.find({timestamp: {$gte, $lte}}) can return: candles of the
\* range in any order (the query is not sorted).
FoundLists(start, end) ==
  { s \in SeqsUpTo({ ts \in StoreTimestamps : ts >= start /\ ts <= end }, MaxDays + 1) :
      IsInjective(s) }

\* The dateSet after the forEach: day keys in first-insertion order.
RECURSIVE dateSet(_)
dateSet(found) ==
  IF found = << >> THEN << >>
  ELSE LET front == dateSet(SubSeq(found, 1, Len(found) - 1))
           key == DayOf(found[Len(found)])
       IN  IF \E k \in 1 .. Len(front) : front[k] = key THEN front
           ELSE Append(front, key)

\* Array.prototype.sort((a, b) => a - b).
RECURSIVE sortAscending(_)
sortAscending(s) ==
  IF s = << >> THEN << >>
  ELSE LET m == CHOOSE k \in 1 .. Len(s) : \A j \in 1 .. Len(s) : s[k] <= s[j]
           rest == [j \in 1 .. Len(s) - 1 |-> IF j < m THEN s[j] ELSE s[j + 1]]
       IN  << s[m] >> \o sortAscending(rest)

\* Mutant: the days are left in the order the Set holds them.
getTradingDaysUnsorted(found) == dateSet(found)

\* Lines 29-43: the distinct local days of the timestamps found, ascending.
getTradingDays(found) == sortAscending(dateSet(found))

\* Mutant: the bound of the lookup is the trading day itself.
getPreviousDayLevelsSameDay(securityId, currentDate) ==
  LET matching == { s \in dailySummaries :
                      s.securityId = securityId /\ s.date <= currentDate }
  IN  IF matching = { } THEN Null
      ELSE LET dailySummary == CHOOSE s \in matching : \A t \in matching : t.date <= s.date
           IN  Some([dailyHigh |-> dailySummary.dailyHigh,
                     dailyLow |-> dailySummary.dailyLow, date |-> dailySummary.date])

\* DailySummary.findOne({securityId, date: {$lte: prevDate}}).sort({date: -1}):
\* the latest summary of the security dated at most the day before
\* currentDate, null when there is none.
getPreviousDayLevels(securityId, currentDate) ==
  LET prevDate == currentDate - 1
      matching == { s \in dailySummaries :
                      s.securityId = securityId /\ s.date <= prevDate }
  IN  IF matching = { } THEN Null
      ELSE LET dailySummary == CHOOSE s \in matching : \A t \in matching : t.date <= s.date
           IN  Some([dailyHigh |-> dailySummary.dailyHigh,
                     dailyLow |-> dailySummary.dailyLow, date |-> dailySummary.date])

\* ------------------------------------------------------------ runStrategy
\* Messages of the errors a rejected store query throws (possibly none).
StoreErrors == { "", "connection closed" }

\* An error response: success false and a message, nothing else.
Reply(status, message) ==
  Some([status |-> status, success |-> FALSE, message |-> message,
        summary |-> Null, trades |-> Null])

\* Mutant: the failure response carries the trades made so far.
failureWithLedger(thrown) ==
  Some([status |-> 500, success |-> FALSE, message |-> thrown,
        summary |-> Null, trades |-> Some(allTrades)])

\* Lines 476-482: the response of the catch block.
failure(thrown) ==
  Reply(500, IF thrown # "" THEN thrown ELSE "Internal server error")

\* The request handler before its first step.
Idle ==
  /\ pc = "validate"
  /\ targetPercentValue = 0
  /\ stopLossPercentValue = 0
  /\ capitalValue = 0
  /\ tradingDays = << >>
  /\ i = 1
  /\ previousDayLevels = Null
  /\ candles = << >>
  /\ ci = 1
  /\ activeTrade = Null
  /\ tradeExecuted = FALSE
  /\ trades = << >>
  /\ updatedCapital = 0
  /\ allTrades = << >>
  /\ skippedDays = << >>
  /\ currentCapital = 0
  /\ response = Null
  /\ error = Null
  /\ lastCapitalOut = 0
  /\ simulatedDays = << >>

\* No seed run in progress.
SeedIdle ==
  /\ seedPc = "idle"
  /\ seedCandles = << >>
  /\ seedSummaries = << >>
  /\ seedExit = Null

\* No day is being compared.
CompareIdle ==
  /\ dayCase = Null
  /\ dayOutcome = Null

\* No historical fetch in progress.
FetchIdle ==
  /\ fetchArgs = Null
  /\ fetchPc = "idle"
  /\ currentStart = 0
  /\ allCandles = << >>
  /\ chunks = << >>
  /\ uniqueCandles = Null

\* No ledger is being evaluated, no requests are served side by side, no day
\* is being compared and no historical fetch is in progress.
MetricsIdle ==
  /\ ledger = << >>
  /\ metrics = Null
  /\ previousMetrics = Null
  /\ runs = << >>
  /\ CompareIdle
  /\ FetchIdle

Init ==
  /\ MetricsIdle
  /\ dailySummaries \in SummaryStores
  /\ req \in Requests
  /\ Idle
  /\ candleStore = { }
  /\ bulkErrorName = "BulkWriteError"
  /\ SeedIdle

\* Lines 319-378: required fields, defaults and validation.
Validate ==
  /\ pc = "validate"
  /\ LET missing == \/ req.stockName = Null \/ req.securityId = Null
                    \/ req.startDate = Null \/ req.endDate = Null
         tp == IF req.targetPercent # Null THEN req.targetPercent[1] ELSE Num(DefaultPercent)
         sl == IF req.stopLossPercent # Null THEN req.stopLossPercent[1] ELSE Num(DefaultPercent)
         cap == IF req.capital # Null THEN req.capital[1] ELSE Num(DefaultCapital)
         badTarget == tp.isNaN \/ tp.value <= 0 \/ tp.value > MaxPercent
         badStopLoss == sl.isNaN \/ sl.value <= 0 \/ sl.value > MaxPercent
         badCapital == cap.isNaN \/ cap.value < MinCapital
         refusal ==
           IF missing
             THEN "All fields are required"
           ELSE IF badTarget
             THEN "Target percent must be a number between 0.01 and 10"
           ELSE IF badStopLoss
             THEN "Stop loss percent must be a number between 0.01 and 10"
           ELSE IF badCapital
             THEN "Capital must be a number greater than or equal to 1000"
           ELSE IF req.startDate[1].isNaN \/ req.endDate[1].isNaN
             THEN "Invalid date format"
           ELSE IF Midnight(req.startDate[1].value) >= Midnight(req.endDate[1].value)
             THEN "End date must be after start date"
           ELSE ""
     IN  /\ targetPercentValue' = IF missing THEN targetPercentValue ELSE tp.value
         /\ stopLossPercentValue' = IF missing THEN stopLossPercentValue ELSE sl.value
         /\ capitalValue' = IF missing \/ badTarget \/ badStopLoss
                            THEN capitalValue ELSE cap.value
         /\ IF refusal # ""
            THEN /\ response' = Reply(400, refusal)
                 /\ pc' = "done"
            ELSE /\ response' = response
                 /\ pc' = "getTradingDays"
  /\ UNCHANGED << storeVars, sideVars, req, runVars, previousDayLevels, dayVars,
                  error, ghostVars >>

\* Mutant: a skipped day is not recorded.
skipDayForgotten(skipped, tradingDay) == skipped

\* Lines 401 and 408: the skipped day is recorded.  The entry is the date
\* string of the day (toISOString().split('T')[0]); the entries are read
\* nowhere, only their number is (line 467), so an entry stands for the day
\* it was pushed for.
skipDay(skipped, tradingDay) == Append(skipped, tradingDay)

\* The loop test of line 395 after the increment to index n.
LoopPc(days, n) == IF n <= Len(days) THEN "getLevels" ELSE "metrics"

\* Lines 381-393: the trading days of the range, then the loop is entered;
\* a rejected query is caught at line 476.
GetTradingDays ==
  /\ pc = "getTradingDays"
  /\ \/ \E found \in FoundLists(Midnight(req.startDate[1].value),
                                 Midnight(req.endDate[1].value)) :
          LET days == getTradingDays(found)
          IN  IF Len(days) = 0
              THEN /\ response' = Reply(404, "No trading days found")
                   /\ pc' = "done"
                   /\ UNCHANGED << tradingDays, currentCapital, lastCapitalOut, error >>
              ELSE /\ tradingDays' = days
                   /\ currentCapital' = capitalValue
                   /\ lastCapitalOut' = capitalValue
                   /\ pc' = LoopPc(days, 1)
                   /\ UNCHANGED << response, error >>
     \/ \E thrown \in StoreErrors :
          /\ error' = Some(thrown)
          /\ response' = failure(thrown)
          /\ pc' = "done"
          /\ UNCHANGED << tradingDays, currentCapital, lastCapitalOut >>
  /\ UNCHANGED << paramVars, i, allTrades, skippedDays, previousDayLevels,
                  dayVars, simulatedDays >>

\* Lines 396-403: the level lookup of day i; no summary skips the day, a
\* rejected query is caught at line 476.
GetPreviousDayLevels ==
  /\ pc = "getLevels"
  /\ \/ LET result == getPreviousDayLevels(req.securityId[1], tradingDays[i])
        IN  /\ IF result = Null
               THEN /\ skippedDays' = skipDay(skippedDays, tradingDays[i])
                    /\ i' = i + 1
                    /\ pc' = LoopPc(tradingDays, i + 1)
                    /\ UNCHANGED previousDayLevels
               ELSE /\ previousDayLevels' = result
                    /\ pc' = "getCandles"
                    /\ UNCHANGED << skippedDays, i >>
            /\ UNCHANGED << response, error >>
     \/ \E thrown \in StoreErrors :
          /\ error' = Some(thrown)
          /\ response' = failure(thrown)
          /\ pc' = "done"
          /\ UNCHANGED << skippedDays, i, previousDayLevels >>
  /\ UNCHANGED << paramVars, tradingDays, allTrades, currentCapital, dayVars,
                  ghostVars >>

\* Lines 405-413 and 117-130: the day's candles; an empty list skips the
\* day, otherwise processTradingDay is entered with the current capital; a
\* rejected query is caught at line 476.
GetCandlesForDay ==
  /\ pc = "getCandles"
  /\ \/ \E cs \in DayCandleLists(req.securityId[1], tradingDays[i]) :
          /\ IF Len(cs) = 0
             THEN /\ skippedDays' = skipDay(skippedDays, tradingDays[i])
                  /\ i' = i + 1
                  /\ pc' = LoopPc(tradingDays, i + 1)
                  /\ previousDayLevels' = Null
                  /\ UNCHANGED << dayVars, simulatedDays >>
             ELSE /\ candles' = cs
                  /\ ci' = 1
                  /\ activeTrade' = Null
                  /\ tradeExecuted' = FALSE
                  /\ trades' = << >>
                  /\ updatedCapital' = currentCapital
                  /\ simulatedDays' = Append(simulatedDays, tradingDays[i])
                  /\ pc' = IF previousDayLevels = Null \/ Len(cs) = 0
                           THEN "processed" ELSE "scan"
                  /\ UNCHANGED << skippedDays, i, previousDayLevels >>
          /\ UNCHANGED << response, error >>
     \/ \E thrown \in StoreErrors :
          /\ error' = Some(thrown)
          /\ response' = failure(thrown)
          /\ pc' = "done"
          /\ UNCHANGED << skippedDays, i, previousDayLevels, dayVars, simulatedDays >>
  /\ UNCHANGED << paramVars, tradingDays, allTrades, currentCapital, lastCapitalOut >>

\* The trade open after the entry test of lines 136-174 on candle ci.
entered ==
  IF activeTrade = Null /\ ~tradeExecuted
  THEN openTrade(candles[ci], ci, previousDayLevels[1], targetPercentValue,
                 stopLossPercentValue, updatedCapital)
  ELSE activeTrade

\* Mutant: the exit test starts on the candle after the entry candle.
checkOpenTradeNextCandle(open, candle, idx) ==
  IF open = Null \/ open[1].entryCandleIndex = idx THEN NoExit
  ELSE checkExitCondition(candle, open[1].entryPrice, open[1].isBuy,
                          open[1].target, open[1].stopLoss)

\* Lines 176-183: the exit test of the open trade (if any) on candle idx.
checkOpenTrade(open, candle, idx) ==
  IF open = Null THEN NoExit
  ELSE checkExitCondition(candle, open[1].entryPrice, open[1].isBuy,
                          open[1].target, open[1].stopLoss)

\* Mutant: the loop goes on after a trade is closed, the flag left unset.
closeLoopNoBreak(idx, n) ==
  [executed |-> FALSE, idx |-> idx + 1,
   next |-> IF idx + 1 <= n THEN "scan" ELSE "endOfDay"]

\* Lines 212-214: after a trade is closed on candle idx of n the flag is set
\* and the loop is left.
closeLoop(idx, n) == [executed |-> TRUE, idx |-> idx, next |-> "endOfDay"]

\* Lines 132-217: one iteration of the candle loop.
ScanCandle ==
  /\ pc = "scan"
  /\ LET candle == candles[ci]
         open == entered
         exitCheck == checkOpenTrade(open, candle, ci)
         after == closeLoop(ci, Len(candles))
     IN  IF exitCheck.exited
         THEN /\ updatedCapital' = updatedCapital + tradePnl(open[1], exitCheck.exitPrice)
              /\ trades' = Append(trades, closedTrade(open[1], candle, exitCheck.exitPrice,
                                                      exitCheck.reason))
              /\ activeTrade' = Null
              /\ tradeExecuted' = after.executed
              /\ ci' = after.idx
              /\ pc' = after.next
         ELSE /\ activeTrade' = open
              /\ ci' = ci + 1
              /\ pc' = IF ci + 1 <= Len(candles) THEN "scan" ELSE "endOfDay"
              /\ UNCHANGED << updatedCapital, trades, tradeExecuted >>
  /\ UNCHANGED << paramVars, runVars, previousDayLevels, candles, response, error,
                  ghostVars >>

\* Mutant: the forced close takes the last candle's open.
endOfDayExitOpen(cs) == cs[Len(cs)].open

\* Lines 222-223: the price of the forced close.
endOfDayExit(cs) == cs[Len(cs)].close

\* Mutant: the forced close is forgotten.
stillOpenIgnored(open, cs, executed) == FALSE

\* Line 221: whether a trade is force-closed after the loop.
stillOpen(open, cs, executed) == open # Null /\ Len(cs) > 0 /\ ~executed

\* Lines 219-252: a trade still open after the loop is closed at the last
\* candle's close; processTradingDay returns.
EndOfDay ==
  /\ pc = "endOfDay"
  /\ IF stillOpen(activeTrade, candles, tradeExecuted)
     THEN LET lastCandle == candles[Len(candles)]
              exitPrice == endOfDayExit(candles)
          IN  /\ updatedCapital' = updatedCapital + tradePnl(activeTrade[1], exitPrice)
              /\ trades' = Append(trades, closedTrade(activeTrade[1], lastCandle,
                                                      exitPrice, "END_OF_DAY"))
     ELSE UNCHANGED << updatedCapital, trades >>
  /\ pc' = "processed"
  /\ UNCHANGED << paramVars, runVars, previousDayLevels, candles, ci, activeTrade,
                  tradeExecuted, response, error, ghostVars >>

\* Mutant: every day is sized with the starting capital.
compoundNever(capital, result, updated) == capital

\* Lines 415-419: the capital carried to the next day.
compound(capital, result, updated) == IF Len(result) > 0 THEN updated ELSE capital

\* Lines 413-420: the day's result is applied and the loop advances.
ApplyResult ==
  /\ pc = "processed"
  /\ allTrades' = IF Len(trades) > 0 THEN allTrades \o trades ELSE allTrades
  /\ currentCapital' = compound(currentCapital, trades, updatedCapital)
  /\ lastCapitalOut' = updatedCapital
  /\ i' = i + 1
  /\ pc' = LoopPc(tradingDays, i + 1)
  /\ previousDayLevels' = Null
  /\ candles' = << >>
  /\ ci' = 1
  /\ activeTrade' = Null
  /\ tradeExecuted' = FALSE
  /\ trades' = << >>
  /\ updatedCapital' = 0
  /\ UNCHANGED << paramVars, tradingDays, skippedDays, response, error,
                  simulatedDays >>

\* Lines 422-474: the response of a completed run: the summary (the day
\* counts and the metrics of the ledger) and the trades.
Respond ==
  /\ pc = "metrics"
  /\ response' = Some([status |-> 200, success |-> TRUE, message |-> "",
                       summary |-> Some([totalTradingDays |-> Len(tradingDays),
                                         skippedDays |-> Len(skippedDays),
                                         metrics |-> calculatePerformanceMetrics(allTrades)]),
                       trades |-> Some(allTrades)])
  /\ pc' = "done"
  /\ UNCHANGED << paramVars, runVars, previousDayLevels, dayVars, error, ghostVars >>

Next ==
  \/ Validate
  \/ GetTradingDays
  \/ GetPreviousDayLevels
  \/ GetCandlesForDay
  \/ ScanCandle
  \/ EndOfDay
  \/ ApplyResult
  \/ Respond

Spec == Init /\ [][Next]_vars

\* ------------------------------------------------------------ seedDailySummaries
\* Most candles the Candle collection holds.
MaxStored == 3

MkStored(sec, interval, ts, o, h, l, c, v) ==
  [stockName |-> "STOCK", securityId |-> sec, interval |-> interval, timestamp |-> ts,
   open |-> Cents(o), high |-> Cents(h), low |-> Cents(l), close |-> Cents(c),
   volume |-> v]

\* Candles the historical fetch may store, one per (securityId, interval,
\* timestamp) (the unique index): two minute bars and the 5-minute bar that
\* spans them on day 1 of one security, a minute bar of its day 2, and two
\* minute bars of the other security on day 1.
StorableCandles ==
  { MkStored(RequestedSecurity, "1", Ts(1, 1), 10000, 10030, 9970, 9980, 100),
    MkStored(RequestedSecurity, "1", Ts(1, 2), 10040, 10060, 10035, 10050, 50),
    MkStored(RequestedSecurity, "5", Ts(1, 1), 10000, 10060, 9970, 10050, 150),
    MkStored(RequestedSecurity, "1", Ts(2, 1), 9990, 10000, 9970, 9975, 70),
    MkStored(OtherSecurity, "1", Ts(1, 1), 119900, 120100, 119800, 120050, 10),
    MkStored(OtherSecurity, "1", Ts(1, 2), 119500, 119900, 118700, 118900, 20) }

\* All orders of the elements of a finite set.
Orderings(S) ==
  { f \in [1 .. Cardinality(S) -> S] : \A a, b \in 1 .. Cardinality(S) : f[a] = f[b] => a = b }

\* Candle.find({}).sort({timestamp: 1}): every candle, ascending by timestamp,
\* candles of equal timestamp in any order.
FindAllCandles(store) ==
  { f \in Orderings(store) : \A a, b \in 1 .. Len(f) : a < b => f[a].timestamp <= f[b].timestamp }

\* Lines 36-39: the key `${securityId}_${dateKey}` of a candle, dateKey being
\* its local calendar date.
securityKey(candle) == << candle.securityId, DayOf(candle.timestamp) >>

\* Lines 33-50: Object.keys(candlesByDateAndSecurity), in insertion order.
RECURSIVE groupKeys(_)
groupKeys(found) ==
  IF found = << >> THEN << >>
  ELSE LET front == groupKeys(SubSeq(found, 1, Len(found) - 1))
           key == securityKey(found[Len(found)])
       IN  IF \E k \in 1 .. Len(front) : front[k] = key THEN front
           ELSE Append(front, key)

\* The candles pushed to the group of key, in input order.
groupCandles(found, key) == SelectSeq(found, LAMBDA c : securityKey(c) = key)

\* Line 62: dayCandles.sort((a, b) => a.timestamp - b.timestamp), a stable
\* sort: candles of equal timestamp keep their order.
RECURSIVE sortByTimestamp(_)
sortByTimestamp(s) ==
  IF Len(s) <= 1 THEN s
  ELSE LET front == sortByTimestamp(SubSeq(s, 1, Len(s) - 1))
           x == s[Len(s)]
           n == Cardinality({ k \in 1 .. Len(front) : front[k].timestamp <= x.timestamp })
       IN  SubSeq(front, 1, n) \o << x >> \o SubSeq(front, n + 1, Len(front))

MaxOf(S) == CHOOSE x \in S : \A y \in S : y <= x
MinOf(S) == CHOOSE x \in S : \A y \in S : x <= y

RECURSIVE totalVolumeOf(_)
totalVolumeOf(s) == IF s = << >> THEN 0 ELSE s[1].volume + totalVolumeOf(Tail(s))

\* Mutant: the daily high is the least of the highs.
summaryOfMinHigh(dayCandles) ==
  LET sorted == sortByTimestamp(dayCandles)
  IN  [stockName |-> dayCandles[1].stockName,
       securityId |-> dayCandles[1].securityId,
       date |-> DayOf(dayCandles[1].timestamp),
       dailyHigh |-> MinOf({ sorted[k].high : k \in 1 .. Len(sorted) }),
       dailyLow |-> MinOf({ sorted[k].low : k \in 1 .. Len(sorted) }),
       open |-> sorted[1].open,
       close |-> sorted[Len(sorted)].close,
       totalVolume |-> totalVolumeOf(sorted)]

\* Lines 58-80: the summary of one group (stockName, securityId and date are
\* those of the first candle pushed to it).
summaryOf(dayCandles) ==
  LET sorted == sortByTimestamp(dayCandles)
  IN  [stockName |-> dayCandles[1].stockName,
       securityId |-> dayCandles[1].securityId,
       date |-> DayOf(dayCandles[1].timestamp),
       dailyHigh |-> MaxOf({ sorted[k].high : k \in 1 .. Len(sorted) }),
       dailyLow |-> MinOf({ sorted[k].low : k \in 1 .. Len(sorted) }),
       open |-> sorted[1].open,
       close |-> sorted[Len(sorted)].close,
       totalVolume |-> totalVolumeOf(sorted)]

\* Lines 33-81: the dailySummaries array computed from the candles found.
aggregate(found) ==
  LET keys == groupKeys(found)
  IN  [k \in 1 .. Len(keys) |-> summaryOf(groupCandles(found, keys[k]))]

\* The key of the unique index of the DailySummary collection.
summaryKey(doc) == << doc.securityId, doc.date >>

\* Documents of the batch that meet the unique index: the key is stored
\* already, or an earlier document of the batch has it.
writeErrors(collection, docs) ==
  { k \in 1 .. Len(docs) :
      \/ \E d \in collection : summaryKey(d) = summaryKey(docs[k])
      \/ \E j \in 1 .. k - 1 : summaryKey(docs[j]) = summaryKey(docs[k]) }


\* Lines 91-94: DailySummary.insertMany(docs, {ordered: false}): every
\* document that does not meet the unique index is inserted, the others are
\* reported as write errors and left out.
insertMany(collection, docs) ==
  collection \cup { docs[k] : k \in (1 .. Len(docs)) \ writeErrors(collection, docs) }

\* The name of the error insertMany throws for write errors: BulkWriteError
\* with version 3 of the MongoDB driver, MongoBulkWriteError since version 4.
BulkErrorNames == { "BulkWriteError", "MongoBulkWriteError" }

\* How the process ends: the exit code and the name of the error caught at
\* line 123 ("" when there is none).
Exit(code, thrown) == Some([code |-> code, error |-> thrown])

SeedInit ==
  /\ MetricsIdle
  /\ dailySummaries = { }
  /\ req = DefaultRequest
  /\ Idle
  /\ candleStore = { }
  /\ bulkErrorName \in BulkErrorNames
  /\ SeedIdle

\* saveCandlesBulk (historical controller): a candle whose (securityId,
\* interval, timestamp) is not stored yet is inserted.
InsertCandle ==
  /\ Cardinality(candleStore) < MaxStored
  /\ \E c \in StorableCandles \ candleStore : candleStore' = candleStore \cup { c }
  /\ UNCHANGED << dailySummaries, bulkErrorName, seedPc, seedCandles, seedSummaries,
                  seedExit, strategyVars, sideVars >>

\* Lines 14-83: a run connects, fetches every candle, returns when there is
\* none, and otherwise groups and aggregates them; a rejected connect or find
\* is caught at line 123.
SeedFind ==
  /\ seedPc = "idle"
  /\ \/ \E found \in FindAllCandles(candleStore) :
          /\ seedCandles' = found
          /\ IF Len(found) = 0
             THEN /\ seedSummaries' = << >>
                  /\ seedPc' = "idle"
                  /\ seedExit' = Exit(0, "")
             ELSE /\ seedSummaries' = aggregate(found)
                  /\ seedPc' = "insertMany"
                  /\ seedExit' = Null
     \/ /\ seedCandles' = << >>
        /\ seedSummaries' = << >>
        /\ seedPc' = "idle"
        /\ seedExit' = Exit(1, "MongoNetworkError")
  /\ UNCHANGED << dailySummaries, candleStore, bulkErrorName, strategyVars, sideVars >>

\* Lines 85-127: the summaries are inserted; write errors are caught at line
\* 97 when the error is named BulkWriteError, anything else is thrown on to
\* line 123 and the process exits with code 1.
SeedInsertMany ==
  /\ seedPc = "insertMany"
  /\ \/ /\ dailySummaries' = insertMany(dailySummaries, seedSummaries)
        /\ seedExit' = IF writeErrors(dailySummaries, seedSummaries) = { }
                       THEN Exit(0, "")
                       ELSE IF bulkErrorName = "BulkWriteError"
                       THEN Exit(0, "")
                       ELSE Exit(1, bulkErrorName)
     \/ /\ dailySummaries' = dailySummaries
        /\ seedExit' = Exit(1, "MongoNetworkError")
  /\ seedPc' = "idle"
  /\ UNCHANGED << candleStore, bulkErrorName, seedCandles, seedSummaries, strategyVars, sideVars >>

SeedNext ==
  \/ InsertCandle
  \/ SeedFind
  \/ SeedInsertMany

SeedSpec == SeedInit /\ [][SeedNext]_vars

\* ------------------------------------------------------------ evaluating a ledger
MaxTrades == 3

\* The pnl of a ledger entry is a whole number of cents (closedTrade).
PnlValues == { Cents(-500), Cents(-200), 0, Cents(200), Cents(300) }

RECURSIVE LedgerOf(_)
\* The ledger with the given pnl values: of a trade the metrics read pnl
\* only; entryTime tells apart trades of equal pnl.
LedgerOf(pnls) ==
  IF pnls = << >> THEN << >>
  ELSE Append(LedgerOf(SubSeq(pnls, 1, Len(pnls) - 1)),
              [entryTime |-> Len(pnls), pnl |-> pnls[Len(pnls)]])

Ledgers == { LedgerOf(pnls) : pnls \in SeqsUpTo(PnlValues, MaxTrades) }

MetricsInit ==
  /\ ledger \in Ledgers
  /\ metrics = Null
  /\ previousMetrics = Null
  /\ runs = << >>
  /\ CompareIdle
  /\ FetchIdle
  /\ dailySummaries = { }
  /\ req = DefaultRequest
  /\ Idle
  /\ candleStore = { }
  /\ bulkErrorName = "BulkWriteError"
  /\ SeedIdle

\* A call of calculatePerformanceMetrics on the ledger: the function reads
\* the array (filter, reduce, forEach) and assigns to nothing but its locals.
CalculateMetrics ==
  /\ previousMetrics = Null
  /\ metrics' = Some(calculatePerformanceMetrics(ledger))
  /\ previousMetrics' = metrics
  /\ ledger' = ledger
  /\ UNCHANGED << strategyVars, storeVars, runs, compareVars, fetchVars >>

MetricsNext == CalculateMetrics

MetricsSpec == MetricsInit /\ [][MetricsNext]_vars

\* ------------------------------------------------------------ processTradingDay as a function
\* The candle loop of lines 132-217 from candle k on; st holds the locals
\* activeTrade, tradeExecuted, trades and updatedCapital.
RECURSIVE scanCandles(_, _, _, _, _, _)
scanCandles(cs, k, levels, targetPercent, stopLossPercent, st) ==
  IF k > Len(cs) THEN st
  ELSE LET open == IF st.activeTrade = Null /\ ~st.tradeExecuted
                   THEN openTrade(cs[k], k, levels, targetPercent, stopLossPercent,
                                  st.updatedCapital)
                   ELSE st.activeTrade
           exitCheck == checkOpenTrade(open, cs[k], k)
           after == closeLoop(k, Len(cs))
       IN  IF exitCheck.exited
           THEN LET closed ==
                      [activeTrade |-> Null, tradeExecuted |-> after.executed,
                       trades |-> Append(st.trades,
                                         closedTrade(open[1], cs[k], exitCheck.exitPrice,
                                                     exitCheck.reason)),
                       updatedCapital |-> st.updatedCapital
                                            + tradePnl(open[1], exitCheck.exitPrice)]
                IN  IF after.next = "scan"
                    THEN scanCandles(cs, after.idx, levels, targetPercent,
                                     stopLossPercent, closed)
                    ELSE closed
           ELSE scanCandles(cs, k + 1, levels, targetPercent, stopLossPercent,
                            [st EXCEPT !.activeTrade = open])

\* processTradingDay (lines 116-253): the day's trades and the capital after
\* them.
processTradingDay(cs, levels, targetPercent, stopLossPercent, capital) ==
  IF levels = Null \/ Len(cs) = 0
  THEN [trades |-> << >>, updatedCapital |-> capital]
  ELSE LET st == scanCandles(cs, 1, levels[1], targetPercent, stopLossPercent,
                             [activeTrade |-> Null, tradeExecuted |-> FALSE,
                              trades |-> << >>, updatedCapital |-> capital])
       IN  IF stillOpen(st.activeTrade, cs, st.tradeExecuted)
           THEN [trades |-> Append(st.trades,
                                   closedTrade(st.activeTrade[1], cs[Len(cs)],
                                               endOfDayExit(cs), "END_OF_DAY")),
                 updatedCapital |-> st.updatedCapital
                                      + tradePnl(st.activeTrade[1], endOfDayExit(cs))]
           ELSE [trades |-> st.trades, updatedCapital |-> st.updatedCapital]

\* The function gives what the steps of the candle loop arrive at.
ProcessTradingDayAgrees ==
  pc = "processed" =>
    processTradingDay(candles, previousDayLevels, targetPercentValue,
                      stopLossPercentValue, currentCapital)
      = [trades |-> trades, updatedCapital |-> updatedCapital]

\* ------------------------------------------------------------ the command-line script
\* scripts/breakoutStrategy.js trades one unit per signal with fixed
\* percentages: 0.002 of the price, which is 0.2 percent.
TARGET_PERCENT == Tenths(2)
STOP_LOSS_PERCENT == Tenths(2)

\* checkExitCondition of the script (lines 148-167).
scriptCheckExitCondition(candle, entryPrice, isBuy, target, stopLoss) ==
  IF isBuy
  THEN IF candle.high >= target
       THEN [exited |-> TRUE, exitPrice |-> target, reason |-> "TARGET"]
       ELSE IF candle.low <= stopLoss
       THEN [exited |-> TRUE, exitPrice |-> stopLoss, reason |-> "STOP_LOSS"]
       ELSE NoExit
  ELSE IF candle.low <= target
       THEN [exited |-> TRUE, exitPrice |-> target, reason |-> "TARGET"]
       ELSE IF candle.high >= stopLoss
       THEN [exited |-> TRUE, exitPrice |-> stopLoss, reason |-> "STOP_LOSS"]
       ELSE NoExit

\* Lines 186-219: the trade the script opens on `candle`, or Null.
scriptOpenTrade(candle, idx, levels) ==
  IF candle.high > levels.dailyHigh
  THEN LET entryPrice == levels.dailyHigh
       IN  Some([type |-> "BUY", entryPrice |-> entryPrice,
                 entryTime |-> candle.timestamp, entryCandleIndex |-> idx,
                 target |-> entryPrice + PctOf(entryPrice, TARGET_PERCENT),
                 stopLoss |-> entryPrice - PctOf(entryPrice, STOP_LOSS_PERCENT),
                 isBuy |-> TRUE])
  ELSE IF candle.low < levels.dailyLow
  THEN LET entryPrice == levels.dailyLow
       IN  Some([type |-> "SELL", entryPrice |-> entryPrice,
                 entryTime |-> candle.timestamp, entryCandleIndex |-> idx,
                 target |-> entryPrice - PctOf(entryPrice, TARGET_PERCENT),
                 stopLoss |-> entryPrice + PctOf(entryPrice, STOP_LOSS_PERCENT),
                 isBuy |-> FALSE])
  ELSE Null

\* Lines 232-252 and 266-286: the record the script pushes when trade t is
\* closed on candle `last`; pnl is the price difference of one unit.
scriptTrade(t, last, exitPrice, reason) ==
  LET pnl == IF t.isBuy THEN exitPrice - t.entryPrice ELSE t.entryPrice - exitPrice
  IN  [date |-> last.timestamp, type |-> t.type, entryPrice |-> t.entryPrice,
       entryTime |-> t.entryTime, exitPrice |-> exitPrice,
       exitTime |-> last.timestamp, exitReason |-> reason,
       pnl |-> toFixed2(pnl),
       pnlPercent |-> RoundDiv(pnl * 100 * 100, t.entryPrice)]

\* The candle loop of lines 182-259 from candle k on, with the locals
\* activeTrade, tradeExecuted and trades; it is left at the first exit.
RECURSIVE scriptScan(_, _, _, _)
scriptScan(cs, k, levels, st) ==
  IF k > Len(cs) THEN st
  ELSE LET open == IF st.activeTrade = Null /\ ~st.tradeExecuted
                   THEN scriptOpenTrade(cs[k], k, levels)
                   ELSE st.activeTrade
           exitCheck == IF open = Null THEN NoExit
                        ELSE scriptCheckExitCondition(cs[k], open[1].entryPrice,
                                                      open[1].isBuy, open[1].target,
                                                      open[1].stopLoss)
       IN  IF exitCheck.exited
           THEN [activeTrade |-> Null, tradeExecuted |-> TRUE,
                 trades |-> Append(st.trades,
                                   scriptTrade(open[1], cs[k], exitCheck.exitPrice,
                                               exitCheck.reason))]
           ELSE scriptScan(cs, k + 1, levels, [st EXCEPT !.activeTrade = open])

\* processTradingDay of the script (lines 172-290): null without levels or
\* candles, else the day's trades.
scriptProcessTradingDay(cs, levels) ==
  IF levels = Null \/ Len(cs) = 0 THEN Null
  ELSE LET st == scriptScan(cs, 1, levels[1],
                            [activeTrade |-> Null, tradeExecuted |-> FALSE,
                             trades |-> << >>])
       IN  IF st.activeTrade # Null /\ Len(cs) > 0 /\ ~st.tradeExecuted
           THEN Some(Append(st.trades,
                            scriptTrade(st.activeTrade[1], cs[Len(cs)],
                                        cs[Len(cs)].close, "END_OF_DAY")))
           ELSE Some(st.trades)

\* ------------------------------------------------------------ one day, three simulations
\* Capitals handed to the two simulations of the handler: the least and the
\* default capital of a request, or a capital below the price of one unit
\* and the default.
CapitalPairs ==
  { << MinCapital, DefaultCapital >>, << Cents(5000), DefaultCapital >> }

\* Percentages of the two simulations: those of the script, or a target of
\* 0.4 with a stop of 0.2.
PercentPairs == { << DefaultPercent, DefaultPercent >>, << Tenths(4), Tenths(2) >> }

\* The arguments of a day: the minute bars of day 1, the levels of the
\* summary before it (or none), percentages and two capitals.
DayCases ==
  { [candles |-> cs, levels |-> lv, targetPercent |-> pp[1],
     stopLossPercent |-> pp[2], firstCapital |-> cp[1], secondCapital |-> cp[2]] :
      cs \in DayCandleLists(RequestedSecurity, 1),
      lv \in { Null, Some(StoredSummary(0)), Some(StoredSummary(1)) },
      pp \in PercentPairs, cp \in CapitalPairs }

CompareInit ==
  /\ dayCase \in { Some(c) : c \in DayCases }
  /\ dayOutcome = Null
  /\ ledger = << >> /\ metrics = Null /\ previousMetrics = Null
  /\ runs = << >>
  /\ FetchIdle
  /\ dailySummaries = { }
  /\ req = DefaultRequest
  /\ Idle
  /\ candleStore = { }
  /\ bulkErrorName = "BulkWriteError"
  /\ SeedIdle

\* The day is simulated by the handler's processTradingDay with each of the
\* capitals and by the script's processTradingDay.
SimulateDay ==
  /\ dayOutcome = Null
  /\ LET c == dayCase[1]
     IN  dayOutcome' =
           Some([first |-> processTradingDay(c.candles, c.levels, c.targetPercent,
                                             c.stopLossPercent, c.firstCapital).trades,
                 second |-> processTradingDay(c.candles, c.levels, c.targetPercent,
                                              c.stopLossPercent, c.secondCapital).trades,
                 script |-> scriptProcessTradingDay(c.candles, c.levels)])
  /\ dayCase' = dayCase
  /\ UNCHANGED << strategyVars, storeVars, metricsVars, runs, fetchVars >>

CompareNext == SimulateDay

CompareSpec == CompareInit /\ [][CompareNext]_vars

\* ------------------------------------------------------------ the chunked historical fetch
\* fetchHistoricalDataWithChunking of the historical controller.  A Date is
\* an instant Ts(day, tick); setDate moves it by whole local days and keeps
\* its time of day.
chunkSize == 90

\* Most chunks a fetch of the model needs, and the last day a fetch may end on.
MaxChunks == 2
MaxFetchDay == MaxChunks * chunkSize + 1

\* d.setDate(d.getDate() + n).
addDays(date, n) == date + n * TicksPerDay

\* Lines 151-152: chunkSize - 1 days after the start of the chunk.
chunkEndOf(start) == addDays(start, chunkSize - 1)

\* Line 154.
actualEndOf(start, finalEnd) ==
  IF chunkEndOf(start) > finalEnd THEN finalEnd ELSE chunkEndOf(start)

\* Lines 171-172: the start of the next chunk after a chunk was fetched.
nextStart(actualEnd) == addDays(actualEnd, 1)

\* Mutant: after a failure the next chunk starts on the day the failed one
\* ended on.
nextStartAfterFailureSameDay(actualEnd) == actualEnd

\* Lines 194-195: the start of the next chunk after a chunk failed.
nextStartAfterFailure(actualEnd) == addDays(actualEnd, 1)

\* Lines 219-225: the local calendar date of an instant.
formatDate(date) == DayOf(date)

\* Lines 228-237: the request sent for a chunk; ok tells whether it was
\* answered.
chunkRequest(start, actualEnd, ok) ==
  [fromDate |-> formatDate(start), toDate |-> formatDate(actualEnd), ok |-> ok]

\* The provider has bars for one day in thirty.
MarketDay(d) == d % 30 = 0

\* Lines 245-254 and 279-322: the candles the provider answers with, one per
\* market day from fromDate to toDate inclusive, in ascending order.
providerCandles(fromDate, toDate) ==
  LET days == { d \in fromDate .. toDate : MarketDay(d) }
      nth(j) == CHOOSE d \in days : Cardinality({ e \in days : e <= d }) = j
  IN  [j \in 1 .. Cardinality(days) |-> [start_Time |-> Ts(nth(j), 1)]]

\* removeDuplicateCandles (lines 327-337): the first candle of every
\* start_Time is kept.
RECURSIVE removeDuplicateCandles(_)
removeDuplicateCandles(cs) ==
  IF cs = << >> THEN << >>
  ELSE LET front == SubSeq(cs, 1, Len(cs) - 1)
           last == cs[Len(cs)]
       IN  IF \E k \in 1 .. Len(front) : front[k].start_Time = last.start_Time
           THEN removeDuplicateCandles(front)
           ELSE Append(removeDuplicateCandles(front), last)

\* Arguments of a fetch: it starts on day 0, at midnight or later in the
\* day, and ends on any day up to MaxFetchDay, at midnight or later.
FetchRanges ==
  { [startDate |-> Ts(0, a), endDate |-> Ts(d, b)] :
      a \in 0 .. 1, d \in 0 .. MaxFetchDay, b \in 0 .. 1 }

\* Lines 142-147.
FetchInit ==
  /\ fetchArgs \in { Some(r) : r \in FetchRanges }
  /\ fetchPc = "loop"
  /\ currentStart = fetchArgs[1].startDate
  /\ allCandles = << >>
  /\ chunks = << >>
  /\ uniqueCandles = Null
  /\ ledger = << >> /\ metrics = Null /\ previousMetrics = Null
  /\ runs = << >>
  /\ CompareIdle
  /\ dailySummaries = { }
  /\ req = DefaultRequest
  /\ Idle
  /\ candleStore = { }
  /\ bulkErrorName = "BulkWriteError"
  /\ SeedIdle

FetchUnchanged == UNCHANGED << strategyVars, storeVars, metricsVars, runs, compareVars >>

\* Lines 149-175: the chunk is fetched, its candles are appended and the
\* loop moves on.
ChunkFetched ==
  /\ fetchPc = "loop"
  /\ currentStart < fetchArgs[1].endDate
  /\ LET actualEnd == actualEndOf(currentStart, fetchArgs[1].endDate)
         request == chunkRequest(currentStart, actualEnd, TRUE)
         candles_ == providerCandles(request.fromDate, request.toDate)
     IN  /\ chunks' = Append(chunks, request)
         /\ allCandles' = IF Len(candles_) > 0 THEN allCandles \o candles_ ELSE allCandles
         /\ currentStart' = nextStart(actualEnd)
  /\ UNCHANGED << fetchArgs, fetchPc, uniqueCandles >>
  /\ FetchUnchanged

\* Lines 149-159 and 177-196: fetchHistoricalDataChunk throws; the catch
\* block logs the error and moves on.
ChunkFailed ==
  /\ fetchPc = "loop"
  /\ currentStart < fetchArgs[1].endDate
  /\ LET actualEnd == actualEndOf(currentStart, fetchArgs[1].endDate)
     IN  /\ chunks' = Append(chunks, chunkRequest(currentStart, actualEnd, FALSE))
         /\ currentStart' = nextStartAfterFailure(actualEnd)
  /\ UNCHANGED << fetchArgs, fetchPc, allCandles, uniqueCandles >>
  /\ FetchUnchanged

\* Lines 149 and 199-202: the loop is over and the candles are returned.
FetchReturn ==
  /\ fetchPc = "loop"
  /\ ~(currentStart < fetchArgs[1].endDate)
  /\ fetchPc' = "returned"
  /\ uniqueCandles' = Some(removeDuplicateCandles(allCandles))
  /\ UNCHANGED << fetchArgs, currentStart, allCandles, chunks >>
  /\ FetchUnchanged

FetchNext ==
  \/ ChunkFetched
  \/ ChunkFailed
  \/ FetchReturn

FetchSpec == FetchInit /\ [][FetchNext]_vars

\* The provider answers or fails in the end, and the function goes on.
FairFetchSpec == FetchSpec /\ WF_vars(FetchNext)

\* ------------------------------------------------------------ requests served side by side
\* Node runs the code between two awaits of a request without interruption,
\* so a step of a request goes from the answer of one store query to the
\* next query.  The candles come from the Candle collection (candleStore),
\* the levels from the DailySummary collection.
Runners == { 1, 2 }

PairRequests ==
  { DefaultRequest,
    [LastDayRequest EXCEPT !.targetPercent = Some(Num(Tenths(4))),
                           !.stopLossPercent = Some(Num(Tenths(2))), !.capital = Null],
    [DefaultRequest EXCEPT !.securityId = Some(OtherSecurity)] }

\* Lines 330-371: the values a valid request is parsed to.
requestValues(r) ==
  [securityId |-> r.securityId[1],
   start |-> Midnight(r.startDate[1].value),
   end |-> Midnight(r.endDate[1].value),
   targetPercent |-> IF r.targetPercent # Null THEN r.targetPercent[1].value
                     ELSE DefaultPercent,
   stopLossPercent |-> IF r.stopLossPercent # Null THEN r.stopLossPercent[1].value
                       ELSE DefaultPercent,
   capital |-> IF r.capital # Null THEN r.capital[1].value ELSE DefaultCapital]

\* Lines 330-331: new Date(startDate) and new Date(endDate) of a request
\* whose date strings carry a time of day: the range starts at the second
\* minute bar of day 1 and ends at the first minute bar of the last day.
intradayValues(r) ==
  [requestValues(r) EXCEPT !.start = Ts(1, 2), !.end = Ts(MaxDays, 1)]

\* The locals of a runStrategy call that awaits getTradingDays (line 381).
freshRun(values) ==
  [pc |-> "getTradingDays", request |-> values, tradingDays |-> << >>, i |-> 1,
   previousDayLevels |-> Null, allTrades |-> << >>, skippedDays |-> << >>,
   currentCapital |-> 0, status |-> 0]

\* Lines 20-27: the timestamps of the security's minute bars in the range.
tradingDayTimestamps(store, values) ==
  { c.timestamp : c \in { x \in store : /\ x.securityId = values.securityId
                                        /\ x.interval = "1"
                                        /\ x.timestamp >= values.start
                                        /\ x.timestamp <= values.end } }

\* getCandlesForDay (lines 71-87): the security's minute bars of the local
\* day, ascending by timestamp (unique per security and interval).
getCandlesForDay(store, securityId, date) ==
  LET ofDay == { c \in store : /\ c.securityId = securityId
                               /\ c.interval = "1"
                               /\ DayOf(c.timestamp) = date }
  IN  sortByTimestamp(CHOOSE f \in Orderings(ofDay) : TRUE)

\* The loop test of line 395 and, when the loop is over, lines 422-474: the
\* response is sent without a further await.
loopOrRespond(run) ==
  IF run.i <= Len(run.tradingDays) THEN [run EXCEPT !.pc = "getLevels"]
  ELSE [run EXCEPT !.pc = "done", !.status = 200]

\* Lines 383-393: after getTradingDays answered with the timestamps found.
gotTradingDays(run, found) ==
  LET days == getTradingDays(found)
  IN  IF Len(days) = 0
      THEN [run EXCEPT !.pc = "done", !.status = 404]
      ELSE loopOrRespond([run EXCEPT !.tradingDays = days,
                                     !.currentCapital = run.request.capital])

\* Lines 400-403: after getPreviousDayLevels answered.
gotLevels(run, result) ==
  IF result = Null
  THEN loopOrRespond([run EXCEPT !.skippedDays = skipDay(@, run.tradingDays[run.i]),
                                 !.i = @ + 1])
  ELSE [run EXCEPT !.previousDayLevels = result, !.pc = "getCandles"]

\* Lines 407-420: after getCandlesForDay answered; the day is simulated with
\* the capital handed in.
gotCandles(run, cs, capital) ==
  IF Len(cs) = 0
  THEN loopOrRespond([run EXCEPT !.skippedDays = skipDay(@, run.tradingDays[run.i]),
                                 !.i = @ + 1, !.previousDayLevels = Null])
  ELSE LET result == processTradingDay(cs, run.previousDayLevels,
                                       run.request.targetPercent,
                                       run.request.stopLossPercent, capital)
       IN  loopOrRespond(
             [run EXCEPT !.allTrades = IF Len(result.trades) > 0
                                       THEN @ \o result.trades ELSE @,
                         !.currentCapital = compound(@, result.trades,
                                                     result.updatedCapital),
                         !.i = @ + 1, !.previousDayLevels = Null])

\* Mutant: currentCapital is one variable of the module, which the request
\* started last has assigned.
capitalShared(rs, p) ==
  LET started == { q \in Runners : rs[q].pc # "getTradingDays" }
  IN  IF started = { } THEN rs[p].currentCapital
      ELSE rs[MaxOf(started)].currentCapital

\* Line 391: currentCapital is a local of the call.
capitalOf(rs, p) == rs[p].currentCapital

PairInit ==
  /\ runs \in [Runners -> { freshRun(requestValues(r)) : r \in PairRequests }
                           \cup { freshRun(intradayValues(DefaultRequest)) }]
  /\ candleStore \in { S \in SUBSET StorableCandles : Cardinality(S) <= MaxStored }
  /\ dailySummaries \in SummaryStores
  /\ ledger = << >> /\ metrics = Null /\ previousMetrics = Null
  /\ CompareIdle
  /\ FetchIdle
  /\ req = DefaultRequest
  /\ Idle
  /\ bulkErrorName = "BulkWriteError"
  /\ SeedIdle

PairUnchanged == UNCHANGED << strategyVars, storeVars, metricsVars, compareVars, fetchVars >>

PairGetTradingDays(p) ==
  /\ runs[p].pc = "getTradingDays"
  /\ \E found \in Orderings(tradingDayTimestamps(candleStore, runs[p].request)) :
       runs' = [runs EXCEPT ![p] = gotTradingDays(@, found)]
  /\ PairUnchanged

PairGetLevels(p) ==
  /\ runs[p].pc = "getLevels"
  /\ runs' = [runs EXCEPT ![p] =
                gotLevels(@, getPreviousDayLevels(@.request.securityId, @.tradingDays[@.i]))]
  /\ PairUnchanged

PairGetCandles(p) ==
  /\ runs[p].pc = "getCandles"
  /\ runs' = [runs EXCEPT ![p] =
                gotCandles(@, getCandlesForDay(candleStore, @.request.securityId,
                                               @.tradingDays[@.i]),
                           capitalOf(runs, p))]
  /\ PairUnchanged

\* A query is rejected: the catch block of lines 476-482 answers with 500.
PairQueryRejected(p) ==
  /\ runs[p].pc # "done"
  /\ runs' = [runs EXCEPT ![p] = [@ EXCEPT !.pc = "done", !.status = 500]]
  /\ PairUnchanged

PairNext ==
  \E p \in Runners :
    \/ PairGetTradingDays(p)
    \/ PairGetLevels(p)
    \/ PairGetCandles(p)
    \/ PairQueryRejected(p)

PairSpec == PairInit /\ [][PairNext]_vars

\* The request served alone over the store, no query being rejected.
RECURSIVE runAlone(_)
runAlone(run) ==
  IF run.pc = "getTradingDays"
  THEN runAlone(gotTradingDays(run,
         CHOOSE f \in Orderings(tradingDayTimestamps(candleStore, run.request)) : TRUE))
  ELSE IF run.pc = "getLevels"
  THEN runAlone(gotLevels(run, getPreviousDayLevels(run.request.securityId,
                                                    run.tradingDays[run.i])))
  ELSE IF run.pc = "getCandles"
  THEN runAlone(gotCandles(run, getCandlesForDay(candleStore, run.request.securityId,
                                                 run.tradingDays[run.i]),
                           run.currentCapital))
  ELSE run

\* ------------------------------------------------------------ vocabulary of the claims
InDay == pc \in {"scan", "endOfDay", "processed"}
Returned == pc = "processed"
Levels == previousDayLevels[1]
LastCandle == candles[Len(candles)]
IdxOf(ts) == CHOOSE k \in 1 .. Len(candles) : candles[k].timestamp = ts

\* The candle breaks a level of the previous day (strictly).
BreaksHigh(c) == c.high > Levels.dailyHigh
BreaksLow(c) == c.low < Levels.dailyLow
Breaks(c) == BreaksHigh(c) \/ BreaksLow(c)

\* Index of the first candle of the day that breaks a level, 0 if none does.
FirstBreak ==
  IF \E k \in 1 .. Len(candles) : Breaks(candles[k])
  THEN CHOOSE k \in 1 .. Len(candles) :
         Breaks(candles[k]) /\ \A j \in 1 .. k - 1 : ~Breaks(candles[j])
  ELSE 0

\* Number of candles the loop has been through.
Scanned ==
  IF pc = "scan" THEN ci - 1 ELSE IF tradeExecuted THEN ci ELSE Len(candles)

\* The day's position, open or closed.
HasEntry == activeTrade # Null \/ trades # << >>
Entry == IF activeTrade # Null THEN activeTrade[1] ELSE trades[1]

\* Target and stop-loss prices and conditions of section 4.3.
TargetOf(type, entryPrice) ==
  IF type = "BUY" THEN entryPrice + PctOf(entryPrice, targetPercentValue)
  ELSE entryPrice - PctOf(entryPrice, targetPercentValue)
StopOf(type, entryPrice) ==
  IF type = "BUY" THEN entryPrice - PctOf(entryPrice, stopLossPercentValue)
  ELSE entryPrice + PctOf(entryPrice, stopLossPercentValue)
TargetCond(c, type, entryPrice) ==
  IF type = "BUY" THEN c.high >= TargetOf(type, entryPrice)
  ELSE c.low <= TargetOf(type, entryPrice)
StopCond(c, type, entryPrice) ==
  IF type = "BUY" THEN c.low <= StopOf(type, entryPrice)
  ELSE c.high >= StopOf(type, entryPrice)
ExitCond(c, type, entryPrice) ==
  TargetCond(c, type, entryPrice) \/ StopCond(c, type, entryPrice)

\* Type and price of the entry a breaking candle gives.
SignalType(c) == IF BreaksHigh(c) THEN "BUY" ELSE "SELL"
SignalPrice(c) == IF BreaksHigh(c) THEN Levels.dailyHigh ELSE Levels.dailyLow

\* The inputs are such that percentages of entry prices are whole units.
ExactArithmetic ==
  activeTrade # Null =>
    /\ ((activeTrade[1].entryPrice % (PercentUnits * PercentDivisor))
          * targetPercentValue) % (PercentUnits * PercentDivisor) = 0
    /\ ((activeTrade[1].entryPrice % (PercentUnits * PercentDivisor))
          * stopLossPercentValue) % (PercentUnits * PercentDivisor) = 0

\* ------------------------------------------------------------ claims

\* C1: processTradingDay returns at most one trade for a day: once a trade
\* has been closed the candle loop is over, so no later candle of the day
\* opens or closes another trade.
C1_AtMostOneTradePerDay ==
  /\ Len(trades) <= 1
  /\ (InDay /\ Len(trades) = 1) => (pc # "scan" /\ (tradeExecuted => activeTrade = Null))

\* A trade was closed before the last candle, which breaks a level again.
C1_Witness ==
  /\ Returned /\ Len(trades) = 1
  /\ trades[1].exitTime < LastCandle.timestamp
  /\ Breaks(LastCandle)

\* C2 as stated: the capital change of a day equals the pnl field of the
\* day's ledger trade, and 0 when there is no trade.
C2_CapitalChangeIsLedgerPnl ==
  Returned =>
    updatedCapital - currentCapital = (IF Len(trades) = 0 THEN 0 ELSE trades[1].pnl)

\* C2 amended: the capital change of a day equals the unrounded pnl
\* (exit - entry) * quantity of the day's trade (sign by type), of which the
\* ledger's pnl field is the rounding to two decimals (at most half a cent
\* away), and is 0 when there is no trade.
C2_CapitalChangeIsUnroundedPnl ==
  Returned =>
    IF Len(trades) = 0 THEN updatedCapital = currentCapital
    ELSE LET t == trades[1]
             raw == IF t.type = "BUY" THEN (t.exitPrice - t.entryPrice) * t.quantity
                    ELSE (t.entryPrice - t.exitPrice) * t.quantity
         IN  /\ updatedCapital - currentCapital = raw
             /\ t.pnl % Scale = 0
             /\ 2 * Abs(raw - t.pnl) <= Scale

\* A day whose trade's pnl is not a whole number of cents.
C2_Witness ==
  /\ Returned /\ Len(trades) = 1
  /\ updatedCapital - currentCapital # trades[1].pnl

\* C3: days are simulated in strictly ascending date order, and the capital
\* passed to a day's simulation is the capital the previous simulated day
\* returned (the validated starting capital for the first one).
C3_SequentialCompounding ==
  /\ \A a, b \in 1 .. Len(tradingDays) : a < b => tradingDays[a] < tradingDays[b]
  /\ \A a, b \in 1 .. Len(simulatedDays) : a < b => simulatedDays[a] < simulatedDays[b]
  /\ InDay =>
       /\ currentCapital = lastCapitalOut
       /\ simulatedDays[Len(simulatedDays)] = tradingDays[i]
       /\ Len(simulatedDays) = 1 =>
            (currentCapital = capitalValue /\ capitalValue >= MinCapital)

\* A second day is simulated with a capital the first day changed.
C3_Witness ==
  /\ pc = "scan" /\ Len(simulatedDays) = 2
  /\ currentCapital # capitalValue

\* C4: the entry is taken on the first candle that strictly breaks a level:
\* a BUY at dailyHigh when its high is above dailyHigh (also when its low is
\* below dailyLow as well), otherwise a SELL at dailyLow; while no candle
\* put through the loop breaks a level there is no entry.
C4_EntryOnFirstBreakout ==
  InDay =>
    IF ~HasEntry THEN \A j \in 1 .. Scanned : ~Breaks(candles[j])
    ELSE LET k == IdxOf(Entry.entryTime)
         IN  /\ k = FirstBreak
             /\ k <= Scanned
             /\ Entry.type = SignalType(candles[k])
             /\ Entry.entryPrice = SignalPrice(candles[k])
             /\ BreaksHigh(candles[k]) => Entry.type = "BUY"

\* The first candle touches dailyLow without breaking it, the second breaks
\* both levels, and the trade is a BUY entered on the second.
C4_Witness ==
  /\ Returned /\ Len(candles) >= 2 /\ Len(trades) = 1
  /\ candles[1].low = Levels.dailyLow /\ ~Breaks(candles[1])
  /\ BreaksHigh(candles[2]) /\ BreaksLow(candles[2])
  /\ trades[1].type = "BUY" /\ trades[1].entryTime = candles[2].timestamp

\* C5: an open trade is closed on the first candle that satisfies an exit
\* condition; when that candle satisfies the target condition the exit is
\* TARGET at the target price, also when it satisfies the stop-loss
\* condition as well; STOP_LOSS at the stop-loss price only on a candle that
\* satisfies the stop-loss and not the target condition.
C5_TargetBeforeStopLoss ==
  InDay =>
    /\ activeTrade # Null =>
         \A j \in activeTrade[1].entryCandleIndex .. Scanned :
           ~ExitCond(candles[j], activeTrade[1].type, activeTrade[1].entryPrice)
    /\ (trades # << >> /\ trades[1].exitReason # "END_OF_DAY") =>
         LET t == trades[1]
             x == candles[IdxOf(t.exitTime)]
         IN  /\ TargetCond(x, t.type, t.entryPrice) =>
                  (t.exitReason = "TARGET" /\ t.exitPrice = TargetOf(t.type, t.entryPrice))
             /\ ~TargetCond(x, t.type, t.entryPrice) =>
                  /\ StopCond(x, t.type, t.entryPrice)
                  /\ t.exitReason = "STOP_LOSS"
                  /\ t.exitPrice = StopOf(t.type, t.entryPrice)

\* A trade closed with TARGET on a candle that satisfies both conditions.
C5_Witness ==
  /\ Returned /\ Len(trades) = 1 /\ trades[1].exitReason = "TARGET"
  /\ StopCond(candles[IdxOf(trades[1].exitTime)], trades[1].type, trades[1].entryPrice)
  /\ TargetCond(candles[IdxOf(trades[1].exitTime)], trades[1].type, trades[1].entryPrice)

\* C6: the exit conditions are evaluated on the entry candle itself: a trade
\* whose entry candle satisfies the target or stop-loss condition is closed
\* on that candle, exitTime = entryTime, and is never left open past it.
C6_ExitOnEntryCandle ==
  (InDay /\ HasEntry) =>
    LET k == IdxOf(Entry.entryTime)
    IN  ExitCond(candles[k], Entry.type, Entry.entryPrice) =>
          /\ activeTrade = Null
          /\ trades[1].exitTime = trades[1].entryTime
          /\ trades[1].exitReason \in {"TARGET", "STOP_LOSS"}

\* A trade closed on its entry candle although later candles follow.
C6_Witness ==
  /\ Returned /\ Len(trades) = 1 /\ Len(candles) >= 2
  /\ trades[1].exitTime = trades[1].entryTime
  /\ trades[1].entryTime = candles[1].timestamp

\* Scenario A and B: previous day high 100 and low 90, both percentages 0.2,
\* and the day's breakout candle has high 100.3.
ScenarioDay ==
  /\ Returned
  /\ Levels.dailyHigh = Cents(10000) /\ Levels.dailyLow = Cents(9000)
  /\ targetPercentValue = Tenths(2) /\ stopLossPercentValue = Tenths(2)
  /\ FirstBreak # 0
  /\ candles[FirstBreak].high = Cents(10030)

\* Scenario A: a candle after the breakout candle has high 100.25.
ScenarioA ==
  /\ ScenarioDay
  /\ \E j \in FirstBreak + 1 .. Len(candles) : candles[j].high = Cents(10025)

\* C7 as stated: in scenario A the BUY at 100 is closed with TARGET at 100.2
\* by a later candle with high 100.25, not by the breakout candle.
C7_ScenarioA_LaterCandleExits ==
  ScenarioA =>
    /\ Len(trades) = 1
    /\ trades[1].type = "BUY" /\ trades[1].entryPrice = Cents(10000)
    /\ trades[1].exitReason = "TARGET" /\ trades[1].exitPrice = Cents(10020)
    /\ trades[1].exitTime > trades[1].entryTime
    /\ candles[IdxOf(trades[1].exitTime)].high = Cents(10025)

\* C7 amended: in scenario A the BUY at 100 is closed with TARGET at 100.2 on
\* the breakout candle itself (its high 100.3 is already >= 100.2), so
\* exitTime = entryTime; the later candle with high 100.25 plays no part.
C7_ScenarioA_BreakoutCandleExits ==
  ScenarioA =>
    /\ Len(trades) = 1
    /\ trades[1].type = "BUY" /\ trades[1].entryPrice = Cents(10000)
    /\ trades[1].exitReason = "TARGET" /\ trades[1].exitPrice = Cents(10020)
    /\ trades[1].entryTime = candles[FirstBreak].timestamp
    /\ trades[1].exitTime = trades[1].entryTime

C7_Witness == ScenarioA /\ Len(trades) = 1

\* Scenario B: the candle right after the breakout candle has low 99.7 and
\* no candle after the breakout candle reaches 100.2.
ScenarioB ==
  /\ ScenarioDay
  /\ FirstBreak + 1 <= Len(candles)
  /\ candles[FirstBreak + 1].low = Cents(9970)
  /\ \A j \in FirstBreak + 1 .. Len(candles) : candles[j].high < Cents(10020)

\* C8 as stated: in scenario B the trade exits with STOP_LOSS at 99.8.
C8_ScenarioB_StopLoss ==
  ScenarioB =>
    /\ Len(trades) = 1
    /\ trades[1].exitReason = "STOP_LOSS" /\ trades[1].exitPrice = Cents(9980)

\* C8 amended: in scenario B the trade exits with TARGET at 100.2 on the
\* breakout candle, whose high 100.3 reaches the target before the next
\* candle is looked at.
C8_ScenarioB_Target ==
  ScenarioB =>
    /\ Len(trades) = 1
    /\ trades[1].type = "BUY" /\ trades[1].entryPrice = Cents(10000)
    /\ trades[1].exitReason = "TARGET" /\ trades[1].exitPrice = Cents(10020)
    /\ trades[1].exitTime = candles[FirstBreak].timestamp

C8_Witness == ScenarioB /\ Len(trades) = 1 /\ trades[1].exitReason = "TARGET"

\* C9 as stated: whenever the entry occurs on the last candle of the day the
\* trade is closed with END_OF_DAY at that candle's close.
C9_LastCandleEntry_EndOfDay ==
  (Returned /\ FirstBreak # 0 /\ FirstBreak = Len(candles)) =>
    /\ Len(trades) = 1
    /\ trades[1].exitReason = "END_OF_DAY"
    /\ trades[1].exitPrice = LastCandle.close

\* C9 amended: when the entry occurs on the last candle of the day and that
\* candle satisfies neither the target nor the stop-loss condition, the trade
\* is closed with END_OF_DAY at that candle's close; when it satisfies one
\* of them the trade is closed on it with TARGET or STOP_LOSS instead.
C9_LastCandleEntry_NoExitCondition ==
  (Returned /\ FirstBreak # 0 /\ FirstBreak = Len(candles)) =>
    /\ Len(trades) = 1
    /\ trades[1].entryTime = LastCandle.timestamp
    /\ trades[1].exitTime = LastCandle.timestamp
    /\ IF ExitCond(LastCandle, SignalType(LastCandle), SignalPrice(LastCandle))
       THEN trades[1].exitReason \in {"TARGET", "STOP_LOSS"}
       ELSE /\ trades[1].exitReason = "END_OF_DAY"
            /\ trades[1].exitPrice = LastCandle.close

\* The entry is on the last of several candles and the trade ends END_OF_DAY.
C9_Witness ==
  /\ Returned /\ Len(candles) >= 2 /\ FirstBreak = Len(candles)
  /\ Len(trades) = 1 /\ trades[1].exitReason = "END_OF_DAY"

\* C10: if a trade was opened and no candle from the entry candle to the last
\* candle satisfies an exit condition, exactly one trade is recorded, with
\* END_OF_DAY, the last candle's close and the last candle's timestamp; a
\* position still open when processTradingDay returns is in the ledger.
C10_EndOfDayClose ==
  Returned =>
    /\ (FirstBreak # 0 /\
        \A j \in FirstBreak .. Len(candles) :
          ~ExitCond(candles[j], SignalType(candles[FirstBreak]),
                    SignalPrice(candles[FirstBreak]))) =>
         /\ Len(trades) = 1
         /\ trades[1].exitReason = "END_OF_DAY"
         /\ trades[1].exitPrice = LastCandle.close
         /\ trades[1].exitTime = LastCandle.timestamp
         /\ trades[1].entryTime = candles[FirstBreak].timestamp
    /\ activeTrade # Null =>
         (Len(trades) = 1 /\ trades[1].entryTime = activeTrade[1].entryTime)

\* A trade opened on the first candle is carried over a later candle and
\* closed at the end of the day.
C10_Witness ==
  /\ Returned /\ Len(candles) >= 2 /\ FirstBreak = 1
  /\ Len(trades) = 1 /\ trades[1].exitReason = "END_OF_DAY"
  /\ trades[1].exitTime > trades[1].entryTime

\* C11: a day on which no candle breaks a level of the previous day returns
\* from processTradingDay with no trade and updatedCapital equal to the
\* capital passed in, and applying that result in runStrategy adds nothing to
\* the ledger, leaves currentCapital unchanged and does not put the day in
\* skippedDays.
C11_NoSignalDay ==
  /\ []((Returned /\ FirstBreak = 0) =>
          (trades = << >> /\ updatedCapital = currentCapital))
  /\ [][(Returned /\ FirstBreak = 0) =>
          /\ allTrades' = allTrades
          /\ currentCapital' = currentCapital
          /\ skippedDays' = skippedDays
          /\ \A k \in 1 .. Len(skippedDays') : skippedDays'[k] # tradingDays[i]
          /\ i' = i + 1]_vars

\* A day without a breakout has been applied (no trade, no skip, the capital
\* as validated) and the next day returns without a breakout as well.
C11_Witness ==
  /\ Returned /\ FirstBreak = 0 /\ Len(candles) >= 2
  /\ Len(simulatedDays) = 2 /\ i = 2
  /\ allTrades = << >> /\ skippedDays = << >>
  /\ currentCapital = capitalValue

\* Summaries of the requested security dated at most the day before day.
EarlierSummaries(day) ==
  { s \in dailySummaries : s.securityId = req.securityId[1] /\ s.date <= day - 1 }

\* C12: a trading day whose level lookup finds no summary, or whose candle
\* list is empty, is appended to skippedDays exactly once and is never passed
\* to processTradingDay; the step that skips it leaves currentCapital and the
\* ledger unchanged and the loop goes on with the next day (or ends normally
\* after the last one).  skippedDays changes in no other way.  (A query
\* that is rejected returns nothing: error' = Null leaves that case out.)
C12_SkippedDay ==
  /\ [](/\ \A a, b \in 1 .. Len(skippedDays) : skippedDays[a] = skippedDays[b] => a = b
        /\ \A a \in 1 .. Len(skippedDays), b \in 1 .. Len(simulatedDays) :
             skippedDays[a] # simulatedDays[b])
  /\ [][/\ (/\ error' = Null
            /\ \/ pc = "getLevels" /\ EarlierSummaries(tradingDays[i]) = { }
               \/ pc = "getCandles" /\ candles' = << >>) =>
             skippedDays' = Append(skippedDays, tradingDays[i])
        /\ skippedDays' # skippedDays =>
             /\ pc \in {"getLevels", "getCandles"}
             /\ skippedDays' = Append(skippedDays, tradingDays[i])
             /\ simulatedDays' = simulatedDays
             /\ currentCapital' = currentCapital
             /\ allTrades' = allTrades
             /\ response' = response
             /\ i' = i + 1
             /\ pc' = IF i + 1 <= Len(tradingDays) THEN "getLevels" ELSE "metrics"]_vars

\* The first day was skipped for want of a summary, the run went on with the
\* second, skipped for want of candles, and ended normally, the capital and
\* the ledger as at the start.
C12_Witness ==
  /\ pc = "done" /\ response # Null /\ response[1].status = 200
  /\ Len(tradingDays) = 2 /\ skippedDays = tradingDays
  /\ EarlierSummaries(tradingDays[1]) = { } /\ EarlierSummaries(tradingDays[2]) # { }
  /\ simulatedDays = << >> /\ allTrades = << >>
  /\ currentCapital = capitalValue

\* C13: the levels a trading day D is simulated with are those of the stored
\* summary of the same security with the greatest date that is at most D - 1
\* (never one dated D or later, whatever the gap to D); a day for which no
\* such summary exists gets null from the lookup: it is skipped and never
\* simulated.
C13_LatestEarlierSummary ==
  /\ pc \in {"getCandles", "scan", "endOfDay", "processed"} =>
       \E s \in EarlierSummaries(tradingDays[i]) :
         /\ \A t \in EarlierSummaries(tradingDays[i]) : t.date <= s.date
         /\ s.date < tradingDays[i]
         /\ Levels = [dailyHigh |-> s.dailyHigh, dailyLow |-> s.dailyLow, date |-> s.date]
  /\ \A k \in 1 .. Len(tradingDays) :
       (EarlierSummaries(tradingDays[k]) = { } /\ k < i) =>
         /\ \E j \in 1 .. Len(skippedDays) : skippedDays[j] = tradingDays[k]
         /\ \A j \in 1 .. Len(simulatedDays) : simulatedDays[j] # tradingDays[k]

\* A day is simulated with the levels of a summary older than the day before
\* it, while the store holds summaries of the other security for every day.
C13_Witness ==
  /\ pc = "scan"
  /\ Levels.date < tradingDays[i] - 1
  /\ \E s \in dailySummaries : s.securityId # req.securityId[1] /\ s.date = tradingDays[i]

\* C14: the quantity of a trade is floor(capital / entryPrice) for the capital
\* the day was started with; when the capital is smaller than the entry
\* price the trade is recorded all the same, with quantity 0 and pnl 0, the
\* capital returned is the capital passed in, and runStrategy puts the trade
\* in the ledger and keeps its capital.
C14_QuantityIsFloor ==
  /\ []((InDay /\ HasEntry) =>
          /\ Entry.quantity >= 0
          /\ Entry.quantity * Entry.entryPrice <= currentCapital
          /\ currentCapital < (Entry.quantity + 1) * Entry.entryPrice)
  /\ []((Returned /\ FirstBreak # 0 /\
          currentCapital < SignalPrice(candles[FirstBreak])) =>
          /\ Len(trades) = 1
          /\ trades[1].quantity = 0 /\ trades[1].pnl = 0
          /\ updatedCapital = currentCapital)
  /\ [][(Returned /\ Len(trades) = 1 /\ trades[1].quantity = 0) =>
          /\ allTrades' = Append(allTrades, trades[1])
          /\ currentCapital' = currentCapital]_vars

\* A request with capital 1000 for the security priced above 1000: the day
\* returns a trade of quantity 0 whose exit price differs from its entry
\* price.
C14_Witness ==
  /\ Returned /\ Len(trades) = 1
  /\ currentCapital < trades[1].entryPrice
  /\ trades[1].quantity = 0
  /\ trades[1].exitPrice # trades[1].entryPrice

\* The validation contract of section 6, on the request as received:
\* percentages in thousandths of a percent, the capital in units of Cents.
PercentAllowed(field) ==
  field = Null \/ (~field[1].isNaN /\ 0 < field[1].value /\ field[1].value <= 10 * 1000)
CapitalAllowed(field) ==
  field = Null \/ (~field[1].isNaN /\ field[1].value >= Cents(1000 * 100))
OmitsRequired(r) ==
  r.stockName = Null \/ r.securityId = Null \/ r.startDate = Null \/ r.endDate = Null
SatisfiesContract(r) ==
  /\ ~OmitsRequired(r)
  /\ ~r.startDate[1].isNaN /\ ~r.endDate[1].isNaN
  /\ r.startDate[1].value < r.endDate[1].value
  /\ PercentAllowed(r.targetPercent) /\ PercentAllowed(r.stopLossPercent)
  /\ CapitalAllowed(r.capital)

\* C15: a request that breaks the validation contract (or omits a required
\* field) gets a 400 response straight from the validation: the run never
\* reaches a step that queries the store or simulates a day.  A request that
\* satisfies the contract is never answered 400, and runs with the given
\* percentages and capital, 0.2, 0.2 and 100000 standing in for omitted ones.
C15_ValidationContract ==
  /\ ~SatisfiesContract(req) =>
       /\ pc \in {"validate", "done"}
       /\ pc = "done" => (response # Null /\ response[1].status = 400)
       /\ tradingDays = << >> /\ previousDayLevels = Null /\ candles = << >>
       /\ simulatedDays = << >> /\ skippedDays = << >> /\ allTrades = << >>
  /\ (SatisfiesContract(req) /\ pc # "validate") =>
       /\ response = Null \/ response[1].status # 400
       /\ targetPercentValue =
            (IF req.targetPercent = Null THEN 200 ELSE req.targetPercent[1].value)
       /\ stopLossPercentValue =
            (IF req.stopLossPercent = Null THEN 200 ELSE req.stopLossPercent[1].value)
       /\ capitalValue =
            (IF req.capital = Null THEN Cents(100000 * 100) ELSE req.capital[1].value)

\* A request with capital 999.99 and nothing else wrong has been refused.
C15_Witness ==
  /\ pc = "done" /\ response # Null /\ response[1].status = 400
  /\ ~OmitsRequired(req)
  /\ req.capital # Null /\ ~req.capital[1].isNaN
  /\ req.capital[1].value = Cents(1000 * 100) - Scale
  /\ tradingDays = << >>

\* C16: when a store query (trading days, levels, day candles) is rejected
\* the run stops in that step: the day lists, the ledger and the capital are
\* as before the query, no day is simulated afterwards, and the one response
\* of the run is the failure response (status 500, success false), which
\* carries neither trades nor a summary.  No run sends a second response.
C16_StoreFailureAborts ==
  /\ [](error # Null =>
          /\ pc = "done"
          /\ response # Null
          /\ response[1].status = 500 /\ ~response[1].success
          /\ response[1].trades = Null /\ response[1].summary = Null)
  /\ [](response # Null => pc = "done")
  /\ [][/\ pc # "done" /\ response = Null /\ error = Null
        /\ error' # Null =>
             /\ pc \in {"getTradingDays", "getLevels", "getCandles"}
             /\ simulatedDays' = simulatedDays
             /\ UNCHANGED << tradingDays, i, allTrades, skippedDays, currentCapital >>]_vars

\* The level lookup of the second day was rejected after the first day had
\* put a trade in the ledger: the response carries no trades.
C16_Witness ==
  /\ error # Null /\ pc = "done"
  /\ i = 2 /\ previousDayLevels = Null
  /\ Len(allTrades) = 1 /\ Len(simulatedDays) = 1
  /\ response[1].trades = Null

\* C17: every summary computed from a (non-empty) group of candles, and
\* every summary stored from one, has its open and its close between its
\* dailyLow and its dailyHigh.
C17_OpenCloseWithinRange ==
  \A doc \in { seedSummaries[k] : k \in 1 .. Len(seedSummaries) } \cup dailySummaries :
    /\ doc.dailyLow <= doc.open /\ doc.open <= doc.dailyHigh
    /\ doc.dailyLow <= doc.close /\ doc.close <= doc.dailyHigh

\* A summary computed from two candles: the open is the first one's, the
\* close and the high are the second one's, the low is the first one's.
C17_Witness ==
  /\ seedPc = "insertMany"
  /\ \E k \in 1 .. Len(seedSummaries) :
       LET doc == seedSummaries[k]
           group == groupCandles(seedCandles, summaryKey(doc))
       IN  /\ Len(group) = 2
           /\ doc.open = group[1].open /\ doc.close = group[2].close
           /\ doc.dailyHigh = group[2].high /\ doc.dailyHigh > group[1].high
           /\ doc.dailyLow = group[1].low /\ doc.dailyLow < group[2].low
           /\ doc.dailyLow < doc.open /\ doc.close < doc.dailyHigh

\* The candles the run has found, as a set.
FoundCandles == { seedCandles[k] : k \in 1 .. Len(seedCandles) }

\* The candles found that belong to the summary doc.
GroupOf(doc) == { c \in FoundCandles : securityKey(c) = summaryKey(doc) }

\* C18 as stated: the summaries do not depend on the order of the input: for
\* every order of the candles found the aggregation yields the same
\* summaries, one per (securityId, local date), whose open is the open of a
\* candle of the earliest timestamp of the group, whose close is the close of
\* a candle of its latest timestamp, and whose dailyHigh, dailyLow and
\* totalVolume are the max of the highs, the min of the lows and the sum of
\* the volumes.
C18_OrderIndependent ==
  seedPc = "insertMany" =>
    \A input \in Orderings(FoundCandles) :
      LET summaries == aggregate(input)
      IN  /\ { summaries[k] : k \in 1 .. Len(summaries) } =
             { seedSummaries[k] : k \in 1 .. Len(seedSummaries) }
          /\ Len(summaries) = Cardinality({ securityKey(c) : c \in FoundCandles })
          /\ \A a, b \in 1 .. Len(summaries) :
               summaryKey(summaries[a]) = summaryKey(summaries[b]) => a = b
          /\ \A k \in 1 .. Len(summaries) :
               LET doc == summaries[k]
                   group == GroupOf(doc)
               IN  /\ group # { }
                   /\ \E c \in group : /\ \A e \in group : c.timestamp <= e.timestamp
                                       /\ doc.open = c.open
                   /\ \E c \in group : /\ \A e \in group : e.timestamp <= c.timestamp
                                       /\ doc.close = c.close
                   /\ doc.dailyHigh = MaxOf({ c.high : c \in group })
                   /\ doc.dailyLow = MinOf({ c.low : c \in group })

\* For candle sets in which the candles of a group have distinct timestamps
\* the summaries do not depend on the order of the input.
UniqueTimestampsOrderIndependent ==
  (\A a, b \in FoundCandles :
     (securityKey(a) = securityKey(b) /\ a.timestamp = b.timestamp) => a = b)
  => C18_OrderIndependent

\* The last run found candles and its insertMany was not cut short by the
\* connection.
RunCompleted ==
  /\ seedPc = "idle" /\ seedExit # Null /\ seedCandles # << >>
  /\ seedExit[1].error # "MongoNetworkError"

\* C19 as stated: after any sequence of candle insertions and aggregation
\* runs the stored summary of each key is the one the last run computed.
C19_StoredIsLastAggregate ==
  RunCompleted =>
    \A k \in 1 .. Len(seedSummaries) : seedSummaries[k] \in dailySummaries

\* What the script does instead: a stored summary is never replaced.  A run
\* stores the summaries it computed for the keys that are not stored yet and
\* leaves out the others, so the store holds one summary per key, the one
\* computed by the first run that stored the key, whatever candles came later.
StoredIsFirstAggregate ==
  /\ [](\A a, b \in dailySummaries : summaryKey(a) = summaryKey(b) => a = b)
  /\ [](RunCompleted =>
          \A k \in 1 .. Len(seedSummaries) :
            \E d \in dailySummaries : summaryKey(d) = summaryKey(seedSummaries[k]))
  /\ [][/\ \A d \in dailySummaries : d \in dailySummaries'
        /\ \A d \in dailySummaries' \ dailySummaries :
             /\ seedPc = "insertMany"
             /\ \E k \in 1 .. Len(seedSummaries) : seedSummaries[k] = d
             /\ \A e \in dailySummaries : summaryKey(e) # summaryKey(d)]_vars

\* After a completed run the store holds, for a key the run recomputed, a
\* summary other than the recomputed one (a lower high than the candles have).
C19_Witness ==
  /\ RunCompleted
  /\ \E k \in 1 .. Len(seedSummaries), d \in dailySummaries :
       /\ summaryKey(d) = summaryKey(seedSummaries[k])
       /\ d # seedSummaries[k]
       /\ d.dailyHigh < seedSummaries[k].dailyHigh

\* C20 as stated: the store holds one summary per (securityId, date); a run
\* whose summaries are all stored already leaves the store as it is, and a
\* run that meets stored keys completes without failing (exit code 0).
C20_IdempotentRuns ==
  /\ [](\A a, b \in dailySummaries : summaryKey(a) = summaryKey(b) => a = b)
  /\ [][(/\ seedPc = "insertMany" /\ seedPc' = "idle"
         /\ writeErrors(dailySummaries, seedSummaries) # { }
         /\ seedExit'[1].error # "MongoNetworkError") =>
          /\ seedExit'[1].code = 0
          /\ (Cardinality(writeErrors(dailySummaries, seedSummaries)) = Len(seedSummaries)
               => dailySummaries' = dailySummaries)]_vars

\* Candles that may follow the candle at timestamp ts on its day, n at most.
Tails(ts, n) ==
  { [j \in 1 .. Len(shapes) |-> MkCandle(shapes[j], ts + j)] :
      shapes \in SeqsUpTo(CandleShapesOf(req.securityId[1]), n) }

\* C28: a trade is left on the first candle, from its entry candle on, that
\* satisfies the target or the stop-loss condition: entryTime <= exitTime,
\* no candle from the entry candle to the one before the exit candle
\* satisfies an exit condition, and the candles after the exit candle do not
\* matter: with any other candles in their place the day returns the same
\* trades and the same capital.
C28_ExitOnFirstCandle ==
  Returned =>
    \A n \in 1 .. Len(trades) :
      LET t == trades[n]
          e == IdxOf(t.entryTime)
          x == IdxOf(t.exitTime)
      IN  /\ t.entryTime <= t.exitTime
          /\ \A j \in e .. x - 1 : ~ExitCond(candles[j], t.type, t.entryPrice)
          /\ t.exitReason # "END_OF_DAY" =>
               /\ ExitCond(candles[x], t.type, t.entryPrice)
               /\ \A tail \in Tails(t.exitTime, MaxCandles - x) :
                    processTradingDay(SubSeq(candles, 1, x) \o tail, previousDayLevels,
                                      targetPercentValue, stopLossPercentValue,
                                      currentCapital)
                      = [trades |-> trades, updatedCapital |-> updatedCapital]

\* A trade was left on a candle that is not the last of the day, and the
\* candle after it breaks a level.
C28_Witness ==
  /\ Returned /\ Len(trades) = 1
  /\ trades[1].exitReason # "END_OF_DAY"
  /\ IdxOf(trades[1].exitTime) < Len(candles)
  /\ Breaks(candles[IdxOf(trades[1].exitTime) + 1])

WellFormed(c) == c.low <= c.close /\ c.close <= c.high

\* C29: for candles with low <= close <= high a trade closed at the end of
\* the day is left at a price strictly between its stop-loss and its target
\* price; a trade takes from the capital the day started with at most
\* stopLossPercent percent of it (the position is worth no more than the
\* capital, and its loss no more than stopLossPercent percent of its worth);
\* the running capital stays above 0 and every quantity is at least 0.
C29_LossBounded ==
  /\ pc \in {"getLevels", "getCandles", "scan", "endOfDay", "processed", "metrics"} =>
       currentCapital > 0
  /\ InDay => updatedCapital > 0
  /\ \A k \in 1 .. Len(allTrades) : allTrades[k].quantity >= 0
  /\ (Returned /\ \A k \in 1 .. Len(candles) : WellFormed(candles[k])) =>
       \A n \in 1 .. Len(trades) :
         LET t == trades[n]
         IN  /\ t.quantity >= 0
             /\ t.quantity * t.entryPrice <= currentCapital
             /\ currentCapital - updatedCapital
                  <= t.quantity * PctOf(t.entryPrice, stopLossPercentValue)
             /\ t.exitReason = "END_OF_DAY" =>
                  IF t.type = "BUY"
                  THEN /\ StopOf(t.type, t.entryPrice) < t.exitPrice
                       /\ t.exitPrice < TargetOf(t.type, t.entryPrice)
                  ELSE /\ TargetOf(t.type, t.entryPrice) < t.exitPrice
                       /\ t.exitPrice < StopOf(t.type, t.entryPrice)

\* A trade was closed at the end of the day with a loss.
C29_Witness ==
  /\ Returned /\ Len(trades) = 1
  /\ trades[1].exitReason = "END_OF_DAY"
  /\ trades[1].quantity > 0
  /\ updatedCapital < currentCapital

Evaluated == metrics # Null
Metrics == metrics[1]
Positions == 1 .. Len(ledger)
RECURSIVE RunningSum(_)
RunningSum(n) == IF n = 0 THEN 0 ELSE RunningSum(n - 1) + ledger[n].pnl

\* C21: maxDrawdown is >= 0 for every ledger, and 0 when every trade of the
\* ledger has pnl >= 0.
C21_DrawdownNonNegative ==
  Evaluated =>
    /\ Metrics.maxDrawdown >= 0
    /\ (\A k \in Positions : ledger[k].pnl >= 0) => Metrics.maxDrawdown = 0

\* A ledger of several trades, none losing and some winning, was evaluated.
C21_Witness ==
  /\ Evaluated
  /\ Len(ledger) > 1
  /\ \A k \in Positions : ledger[k].pnl >= 0
  /\ \E k \in Positions : ledger[k].pnl > 0
  /\ Metrics.maxDrawdown = 0

\* C22 as stated: for a non-empty ledger maxDrawdown is the largest of
\* peak_i - running_i, peak_i being the largest running sum among the first
\* i trades.
C22_DrawdownFromLedgerPeak ==
  (Evaluated /\ Len(ledger) > 0) =>
    /\ \E n \in Positions :
         Metrics.maxDrawdown = MaxOf({ RunningSum(j) : j \in 1 .. n }) - RunningSum(n)
    /\ \A n \in Positions :
         Metrics.maxDrawdown >= MaxOf({ RunningSum(j) : j \in 1 .. n }) - RunningSum(n)

\* C22 amended: the peak starts at 0, the running sum before the first
\* trade: peak_i is the largest of 0 and the running sums of the first i
\* trades, and maxDrawdown is the largest of peak_i - running_i.
C22_DrawdownFromRunningPeak ==
  (Evaluated /\ Len(ledger) > 0) =>
    /\ \E n \in Positions :
         Metrics.maxDrawdown = MaxOf({ RunningSum(j) : j \in 0 .. n }) - RunningSum(n)
    /\ \A n \in Positions :
         Metrics.maxDrawdown >= MaxOf({ RunningSum(j) : j \in 0 .. n }) - RunningSum(n)

\* A ledger that starts with a loss and never recovers it was evaluated: the
\* drawdown is counted from 0, and is larger than the one counted from the
\* first running sum.
C22_Witness ==
  /\ Evaluated
  /\ Len(ledger) > 1
  /\ ledger[1].pnl < 0
  /\ \A n \in Positions : RunningSum(n) < 0
  /\ Metrics.maxDrawdown = 0 - MinOf({ RunningSum(n) : n \in Positions })
  /\ \A n \in Positions :
       Metrics.maxDrawdown > MaxOf({ RunningSum(j) : j \in 1 .. n }) - RunningSum(n)

Winners == { k \in Positions : ledger[k].pnl > 0 }
Losers == { k \in Positions : ledger[k].pnl < 0 }
CountsAndEmptyLedger ==
  /\ Metrics.totalTrades = Len(ledger)
  /\ Metrics.winningTrades = Cardinality(Winners)
  /\ Metrics.losingTrades = Cardinality(Losers)
  /\ Len(ledger) = 0 =>
       /\ Metrics.totalTrades = 0 /\ Metrics.winningTrades = 0
       /\ Metrics.losingTrades = 0 /\ Metrics.winRate = 0
       /\ Metrics.totalPnl = 0 /\ Metrics.averagePnl = 0
       /\ Metrics.maxDrawdown = 0
       /\ Metrics.bestTrade = Null /\ Metrics.worstTrade = Null

\* C23 as stated: winners are the trades with pnl > 0, losers those with
\* pnl < 0, the empty ledger yields zeros and nulls, and winRate is
\* winningTrades / totalTrades * 100 (winRate is held in hundredths of a
\* percent).
C23_WinRateExact ==
  Evaluated =>
    /\ CountsAndEmptyLedger
    /\ Len(ledger) > 0 =>
         Metrics.winRate * Len(ledger) = Cardinality(Winners) * 100 * 100

\* C23 amended: the same, with winRate being winningTrades / totalTrades *
\* 100 rounded to two decimals.
C23_WinRateRounded ==
  Evaluated =>
    /\ CountsAndEmptyLedger
    /\ Len(ledger) > 0 =>
         2 * Abs(Metrics.winRate * Len(ledger) - Cardinality(Winners) * 100 * 100)
           <= Len(ledger)

\* A ledger with a winning, a losing and an even trade was evaluated: the
\* win rate of one in three is 33.33.
C23_Witness ==
  /\ Evaluated
  /\ Len(ledger) = 3
  /\ Cardinality(Winners) = 1 /\ Cardinality(Losers) = 1
  /\ Metrics.winRate = 3333

\* C24: bestTrade is the first trade of the ledger with the largest pnl,
\* worstTrade the first with the smallest.
C24_FirstExtremeTrade ==
  (Evaluated /\ Len(ledger) > 0) =>
    /\ \E k \in Positions :
         /\ Metrics.bestTrade = Some(ledger[k])
         /\ \A j \in Positions : ledger[j].pnl <= ledger[k].pnl
         /\ \A j \in 1 .. k - 1 : ledger[j].pnl < ledger[k].pnl
    /\ \E k \in Positions :
         /\ Metrics.worstTrade = Some(ledger[k])
         /\ \A j \in Positions : ledger[j].pnl >= ledger[k].pnl
         /\ \A j \in 1 .. k - 1 : ledger[j].pnl > ledger[k].pnl

\* A ledger whose second and third trade tie for the largest pnl was
\* evaluated.
C24_Witness ==
  /\ Evaluated
  /\ Len(ledger) = 3
  /\ ledger[2].pnl = ledger[3].pnl
  /\ ledger[1].pnl < ledger[2].pnl
  /\ Metrics.bestTrade = Some(ledger[2])

C35_MetricsConsistent ==
  (Evaluated /\ Len(ledger) > 0) =>
    /\ Metrics.winningTrades + Metrics.losingTrades <= Metrics.totalTrades
    /\ Metrics.totalTrades = Len(ledger)
    /\ Metrics.totalPnl = RunningSum(Len(ledger))
    /\ Metrics.bestTrade # Null /\ Metrics.worstTrade # Null
    /\ \E k \in Positions : Metrics.bestTrade[1] = ledger[k]
    /\ \E k \in Positions : Metrics.worstTrade[1] = ledger[k]
    /\ Metrics.worstTrade[1].pnl <= Metrics.averagePnl
    /\ Metrics.averagePnl <= Metrics.bestTrade[1].pnl

\* A ledger with a gain, a loss and an even trade was evaluated, and its
\* average is not a whole number of cents before rounding.
C35_Witness ==
  /\ Evaluated
  /\ Len(ledger) = 3
  /\ Metrics.winningTrades = 1 /\ Metrics.losingTrades = 1
  /\ Metrics.averagePnl * 3 # Metrics.totalPnl
  /\ Metrics.worstTrade[1].pnl < Metrics.averagePnl
  /\ Metrics.averagePnl < Metrics.bestTrade[1].pnl

\* ------------------------------------------------------------ claims on runs side by side
\* C26: a request served next to another one, interleaved with it at the
\* store queries, ends with the ledger, the skipped days and the capital it
\* ends with when served alone over the same store.
C26_RunsShareNothing ==
  \A p \in Runners :
    (runs # << >> /\ runs[p].pc = "done" /\ runs[p].status # 500) =>
      LET alone == runAlone(freshRun(runs[p].request))
      IN  /\ runs[p].allTrades = alone.allTrades
          /\ runs[p].skippedDays = alone.skippedDays
          /\ runs[p].currentCapital = alone.currentCapital
          /\ runs[p].status = alone.status

\* Two requests with different capital have both been served and both
\* traded.
C26_Witness ==
  /\ runs # << >>
  /\ \A p \in Runners :
       runs[p].pc = "done" /\ runs[p].status = 200 /\ Len(runs[p].allTrades) > 0
  /\ runs[1].request.capital # runs[2].request.capital

\* The local days on which the security of the request has a minute bar with
\* timestamp in [start, end].
DaysWithCandles(values) ==
  { DayOf(c.timestamp) :
      c \in { x \in candleStore : /\ x.securityId = values.securityId
                                  /\ x.interval = "1"
                                  /\ x.timestamp >= values.start
                                  /\ x.timestamp <= values.end } }

Ascending(days) == \A a, b \in 1 .. Len(days) : a < b => days[a] < days[b]

\* The days the loop of a run has gone through: skipped or simulated.
RECURSIVE DaysDone(_, _)
DaysDone(run, n) ==
  IF n = 0 THEN << >> ELSE Append(DaysDone(run, n - 1), run.tradingDays[n])

\* C27: the days a run goes through are the local days on which the security
\* has a minute bar with timestamp in the range, each once and in ascending
\* order, and the ledger is chronological: a trade is entered after the
\* trade before it was left.
C27_DaysAscending ==
  \A p \in Runners :
    (runs # << >> /\ runs[p].pc # "getTradingDays" /\ runs[p].status # 500) =>
      LET run == runs[p]
      IN  /\ (run.status = 404) = (DaysWithCandles(run.request) = { })
          /\ run.status # 404 =>
               /\ { run.tradingDays[k] : k \in 1 .. Len(run.tradingDays) }
                    = DaysWithCandles(run.request)
               /\ Ascending(run.tradingDays)
               /\ run.pc = "done" => DaysDone(run, run.i - 1) = run.tradingDays
          /\ \A k \in 1 .. Len(run.allTrades) :
               /\ run.allTrades[k].entryTime <= run.allTrades[k].exitTime
               /\ \E d \in 1 .. run.i - 1 :
                    DayOf(run.allTrades[k].entryTime) = run.tradingDays[d]
               /\ k > 1 => run.allTrades[k].entryTime > run.allTrades[k - 1].exitTime

\* A run over a store that holds bars of two days of the security, and bars
\* the query leaves out, went through both days and traded on each.
C27_Witness ==
  /\ runs # << >>
  /\ \E p \in Runners :
       /\ runs[p].pc = "done" /\ runs[p].status = 200
       /\ Len(runs[p].tradingDays) = 2
       /\ Len(runs[p].allTrades) = 2
       /\ \E c \in candleStore : c.securityId # runs[p].request.securityId

\* C32: every trade in the ledger of a run has its entryTime and its exitTime
\* inside the range [startDate, endDate] of the request.
C32_TradesInsideRange ==
  \A p \in Runners :
    runs # << >> =>
      \A k \in 1 .. Len(runs[p].allTrades) :
        /\ runs[p].allTrades[k].entryTime >= runs[p].request.start
        /\ runs[p].allTrades[k].exitTime <= runs[p].request.end

\* Every trade of a run is entered and left on a local day that has a minute
\* bar inside the range.
TradesOnDaysOfRange ==
  \A p \in Runners :
    runs # << >> =>
      \A k \in 1 .. Len(runs[p].allTrades) :
        /\ DayOf(runs[p].allTrades[k].entryTime) \in DaysWithCandles(runs[p].request)
        /\ DayOf(runs[p].allTrades[k].exitTime) \in DaysWithCandles(runs[p].request)

\* ------------------------------------------------------------ claims on one day simulated three ways
\* The fields of a trade that do not depend on the number of units.
PriceFields(t) ==
  << t.type, t.entryPrice, t.entryTime, t.exitPrice, t.exitTime, t.exitReason,
     t.pnlPercent >>

Compared == dayOutcome # Null
ScriptTrades == IF dayOutcome[1].script = Null THEN << >> ELSE dayOutcome[1].script[1]

\* C31: two simulations of a day that differ in the capital only produce
\* trades that agree on type, entryPrice, entryTime, exitPrice, exitTime,
\* exitReason and pnlPercent; with targetPercent = stopLossPercent = 0.2 the
\* trade of the command-line script agrees with them on these fields too.
C31_CapitalOnlyScales ==
  Compared =>
    LET first == dayOutcome[1].first
        second == dayOutcome[1].second
    IN  /\ Len(first) = Len(second)
        /\ \A k \in 1 .. Len(first) : PriceFields(first[k]) = PriceFields(second[k])
        /\ (dayCase[1].targetPercent = TARGET_PERCENT
              /\ dayCase[1].stopLossPercent = STOP_LOSS_PERCENT) =>
             /\ Len(ScriptTrades) = Len(first)
             /\ \A k \in 1 .. Len(first) :
                  PriceFields(ScriptTrades[k]) = PriceFields(first[k])

\* A day on which a trade is made was simulated with percentages of 0.2, with
\* a capital that buys no unit and one that buys many; the script traded too.
C31_Witness ==
  /\ Compared
  /\ dayCase[1].targetPercent = TARGET_PERCENT
  /\ dayCase[1].stopLossPercent = STOP_LOSS_PERCENT
  /\ Len(dayOutcome[1].first) = 1
  /\ dayOutcome[1].first[1].quantity = 0
  /\ dayOutcome[1].second[1].quantity > 1
  /\ dayOutcome[1].second[1].pnl # dayOutcome[1].first[1].pnl
  /\ Len(ScriptTrades) = 1
  /\ ScriptTrades[1].pnl # dayOutcome[1].second[1].pnl

\* ------------------------------------------------------------ claims on the chunked fetch
FetchReturned == fetchPc = "returned"
FetchStart == fetchArgs[1].startDate
FetchEnd == fetchArgs[1].endDate
ChunkNumbers == 1 .. Len(chunks)

\* The chunks are requested in increasing date order and none spans more
\* than chunkSize calendar days.
ChunksIncreasing ==
  fetchPc # "idle" =>
    \A k \in ChunkNumbers :
      /\ chunks[k].fromDate <= chunks[k].toDate
      /\ chunks[k].toDate - chunks[k].fromDate + 1 <= chunkSize
      /\ k > 1 => chunks[k].fromDate > chunks[k - 1].toDate

\* The chunks in which calendar day d was requested.
ChunksOf(d) == { k \in ChunkNumbers : chunks[k].fromDate <= d /\ d <= chunks[k].toDate }

\* C33: for startDate < endDate the requested chunks are in increasing date
\* order, each spans at most 90 calendar days, and every calendar day from
\* startDate to endDate inclusive is in exactly one of them.
C33_ChunksCoverRange ==
  (FetchReturned /\ FetchStart < FetchEnd) =>
    /\ ChunksIncreasing
    /\ \A d \in formatDate(FetchStart) .. formatDate(FetchEnd) :
         Cardinality(ChunksOf(d)) = 1

\* Every day before the day of endDate is requested exactly once, and the
\* day of endDate at most once.
ChunksCoverBeforeEnd ==
  (FetchReturned /\ FetchStart < FetchEnd) =>
    /\ \A d \in formatDate(FetchStart) .. formatDate(FetchEnd) - 1 :
         Cardinality(ChunksOf(d)) = 1
    /\ Cardinality(ChunksOf(formatDate(FetchEnd))) <= 1

\* The day of endDate is left out exactly when a whole number of chunks
\* after startDate is endDate or a later time of its day.
EndDayMissedAtChunkBoundary ==
  (FetchReturned /\ FetchStart < FetchEnd) =>
    (ChunksOf(formatDate(FetchEnd)) = { }
       <=> \E n \in 1 .. MaxChunks + 1 :
             /\ formatDate(addDays(FetchStart, n * chunkSize)) = formatDate(FetchEnd)
             /\ addDays(FetchStart, n * chunkSize) >= FetchEnd)

\* The fetch returns.
FetchTerminates == <>FetchReturned

Min(a, b) == IF a < b THEN a ELSE b

\* The candles of the chunks up to the n-th that were answered.
RECURSIVE AnsweredCandles(_)
AnsweredCandles(n) ==
  IF n = 0 THEN << >>
  ELSE IF chunks[n].ok
  THEN AnsweredCandles(n - 1) \o providerCandles(chunks[n].fromDate, chunks[n].toDate)
  ELSE AnsweredCandles(n - 1)

\* C34: a failed chunk does not end the fetch.  Whatever the outcomes, the
\* k-th request starts chunkSize days after the one before and ends
\* chunkSize - 1 days later or on the day of endDate; requests are sent as
\* long as a whole number of chunks after startDate is before endDate; and
\* the candles of all answered chunks are returned.
C34_FailureDoesNotAbort ==
  fetchPc # "idle" =>
    /\ \A k \in ChunkNumbers :
         /\ chunks[k].fromDate = formatDate(FetchStart) + (k - 1) * chunkSize
         /\ chunks[k].toDate = Min(chunks[k].fromDate + chunkSize - 1, formatDate(FetchEnd))
    /\ FetchReturned =>
         /\ \A n \in 0 .. MaxChunks + 1 :
              (addDays(FetchStart, n * chunkSize) < FetchEnd) <=> (n < Len(chunks))
         /\ uniqueCandles = Some(AnsweredCandles(Len(chunks)))

\* A fetch of three chunks returned: the first was answered, the second
\* failed, the third was answered, and candles of the first and the third
\* are returned.
C34_Witness ==
  /\ FetchReturned
  /\ Len(chunks) = 3
  /\ chunks[1].ok /\ ~chunks[2].ok /\ chunks[3].ok
  /\ \E a, b \in 1 .. Len(uniqueCandles[1]) :
       /\ formatDate(uniqueCandles[1][a].start_Time) <= chunks[1].toDate
       /\ formatDate(uniqueCandles[1][b].start_Time) >= chunks[3].fromDate

====
